---- MODULE Spec2Model ----
(***************************************************************************)
(* Model of the SoilSafe backend (src/backend/app.py): the request handler *)
(* predict_v1 with the feature resolver, the attribution engine, the       *)
(* region adjuster and the risk postprocessor.                             *)
(*                                                                         *)
(* Units.  Floats of the program are fixed-point integers here:            *)
(*   rainfall            tenths of a millimetre   (20.0 mm  = 200)         *)
(*   elevation           tenths of a metre        (300.0 m  = 3000)        *)
(*   flood_frequency     tenths                   (3.0      = 30)          *)
(*   distance_from_river tenths of a kilometre    (1.5 km   = 15)          *)
(*   confidence          hundredths               (0.95     = 95)          *)
(*   latitude, longitude whole degrees                                     *)
(* An attribution weight is the exact fraction num/den.                    *)
(***************************************************************************)
EXTENDS Integers, Sequences, FiniteSets, TLC

\* Size of the coordinate grid the requests are drawn from.
MaxLat == 3
MaxLon == 2

Min(a, b) == IF a <= b THEN a ELSE b
Max(a, b) == IF a >= b THEN a ELSE b

(***************************************************************************)
(* Python values as they appear in JSON payloads and rule dicts.           *)
(***************************************************************************)
PyNone == [t |-> "none", v |-> 0, s |-> ""]
PyNum(n) == [t |-> "num", v |-> n, s |-> ""]
PyStr(x) == [t |-> "str", v |-> 0, s |-> x]
\* dict.get(key) of a key the dict does not hold
Absent == PyNone

\* a float() that accepts anything
FloatOk_any(x) == TRUE
\* float(x) succeeds on numbers; the strings of the model are non-numeric
FloatOk(x) == x.t = "num"
\* dict.get(key, default)
Get(x, default) == IF x = Absent THEN default ELSE x

(***************************************************************************)
(* Region rules (REGION_RULES, loaded from data/region_rules.json).        *)
(***************************************************************************)
Rule(name, b, soil, rain, flood, elev, dist) ==
  [name |-> name,
   min_lat |-> b[1], max_lat |-> b[2], min_lon |-> b[3], max_lon |-> b[4],
   soil_type |-> soil, rainfall_intensity |-> rain, flood_frequency |-> flood,
   elevation_category |-> elev, distance_from_river |-> dist]

\* the rule of run_test_predict_high_risk.py, on a box of the grid
RuleFloodplain ==
  Rule("Test Floodplain", <<PyNum(0), PyNum(2), PyNum(0), PyNum(1)>>,
       PyStr("clay"), PyNum(2000), PyNum(50), PyStr("low"), PyNum(3))
\* a complete rule overlapping the first one
RuleHills ==
  Rule("Hills", <<PyNum(1), PyNum(3), PyNum(1), PyNum(2)>>,
       PyStr("sand"), PyNum(100), PyNum(10), PyStr("high"), PyNum(50))
\* a rule that names a box and nothing else; its max_lon is left to the default
RuleSparse ==
  Rule("Sparse", <<PyNum(2), PyNum(3), PyNum(0), Absent>>,
       Absent, Absent, Absent, Absent, Absent)
\* a rule whose bound does not parse as a number
RuleMalformed ==
  Rule("Malformed", <<PyStr("n/a"), PyNum(3), PyNum(0), PyNum(2)>>,
       PyStr("loam"), PyNum(700), PyNum(20), PyStr("mid"), PyNum(10))

NoRule == Rule("", <<Absent, Absent, Absent, Absent>>,
               Absent, Absent, Absent, Absent, Absent)

\* the rule tables a process may have loaded ([] when the file is missing)
RuleTables ==
  { <<>>,
    <<RuleFloodplain, RuleHills, RuleSparse>>,
    <<RuleMalformed, RuleHills, RuleFloodplain>> }

\* the test of one rule in _lookup_region_rule; a float() that raises skips the rule
RuleMatches(r, lat, lon) ==
  LET lo1 == Get(r.min_lat, PyNum(-90))
      hi1 == Get(r.max_lat, PyNum(90))
      lo2 == Get(r.min_lon, PyNum(-180))
      hi2 == Get(r.max_lon, PyNum(180))
  IN  /\ FloatOk(lo1) /\ lat >= lo1.v
      /\ FloatOk(hi1) /\ lat <= hi1.v
      /\ FloatOk(lo2) /\ lon >= lo2.v
      /\ FloatOk(hi2) /\ lon <= hi2.v

RECURSIVE LookupFrom(_, _, _, _)
LookupFrom(rules, i, lat, lon) ==
  IF i > Len(rules) THEN NoRule
  ELSE IF RuleMatches(rules[i], lat, lon) THEN rules[i]
       ELSE LookupFrom(rules, i + 1, lat, lon)

\* the loop left running to the end of the table: the last match wins
RECURSIVE _lookup_region_rule_last_match(_, _, _)
_lookup_region_rule_last_match(rules, lat, lon) ==
  IF rules = <<>> THEN NoRule
  ELSE IF RuleMatches(rules[Len(rules)], lat, lon) THEN rules[Len(rules)]
       ELSE _lookup_region_rule_last_match(SubSeq(rules, 1, Len(rules) - 1), lat, lon)

\* the loop over REGION_RULES; NoRule stands for None
_lookup_region_rule(rules, lat, lon) == LookupFrom(rules, 1, lat, lon)

(***************************************************************************)
(* Categories.                                                             *)
(***************************************************************************)
\* the upper threshold taken as exclusive
_elevation_category_from_m_mid_at_300(elev_m) ==
  IF elev_m = PyNone THEN PyNone
  ELSE IF elev_m.v < 500 THEN PyStr("low")
  ELSE IF elev_m.v <= 3000 THEN PyStr("mid")
  ELSE PyStr("high")

_elevation_category_from_m(elev_m) ==
  IF elev_m = PyNone THEN PyNone
  ELSE IF elev_m.v < 500 THEN PyStr("low")
  ELSE IF elev_m.v < 3000 THEN PyStr("mid")
  ELSE PyStr("high")

\* the lower threshold taken as inclusive
_rainfall_category_from_mm_light_at_20(mm) ==
  IF mm = PyNone THEN PyNone
  ELSE IF ~FloatOk(mm) THEN PyNone
  ELSE IF mm.v <= 200 THEN PyStr("Light")
  ELSE IF mm.v <= 1000 THEN PyStr("Moderate")
  ELSE PyStr("Heavy")

_rainfall_category_from_mm(mm) ==
  IF mm = PyNone THEN PyNone
  ELSE IF ~FloatOk(mm) THEN PyNone
  ELSE IF mm.v < 200 THEN PyStr("Light")
  ELSE IF mm.v <= 1000 THEN PyStr("Moderate")
  ELSE PyStr("Heavy")

(***************************************************************************)
(* EnvironmentalDataFetcher: what the two services can answer.             *)
(***************************************************************************)
\* An HTTP exchange seen from the caller: the request timed out or raised,
\* the status was not 200, the body did not parse or held no usable value,
\* or the body held the value v.
Reply(kind, v) == [kind |-> kind, v |-> v]
FailedReplies ==
  { Reply("timeout", 0), Reply("non200", 0), Reply("malformed", 0), Reply("empty", 0) }
\* sums of the hourly precipitation series: 0.5 mm, 20 mm and 200 mm
RainfallReplies == FailedReplies \cup { Reply("ok", v) : v \in {5, 200, 2000} }
\* elevations: 10 m and 400 m
ElevationReplies == FailedReplies \cup { Reply("ok", v) : v \in {100, 4000} }

\* (total, 'open-meteo') or (None, 'fallback')
_fetch_recent_rainfall_mm(reply) ==
  IF reply.kind = "ok"
  THEN [value |-> PyNum(reply.v), src |-> PyStr("open-meteo")]
  ELSE [value |-> PyNone, src |-> PyStr("fallback")]

\* the first source of _fetch_elevation_m
_fetch_elevation_m_open_elevation(reply) ==
  IF reply.kind = "ok"
  THEN [value |-> PyNum(reply.v), src |-> PyStr("open-elevation")]
  ELSE [value |-> PyNone, src |-> PyStr("fallback")]

\* the second source of _fetch_elevation_m, reached when the first failed
_fetch_elevation_m_open_meteo(reply) ==
  IF reply.kind = "ok"
  THEN [value |-> PyNum(reply.v), src |-> PyStr("open-meteo")]
  ELSE [value |-> PyNone, src |-> PyStr("fallback")]

NotFetched == [value |-> PyNone, src |-> PyNone]

(***************************************************************************)
(* FeatureResolver.                                                        *)
(***************************************************************************)
NoSources ==
  [rainfall |-> Absent, elevation |-> Absent, region_rule |-> Absent,
   flood_frequency |-> Absent, soil_type |-> Absent,
   distance_from_river |-> Absent, manual_input |-> FALSE]

NoMeta ==
  [sources |-> NoSources, region |-> Absent, rainfall_category |-> Absent,
   elevation_m |-> Absent]

NoRow ==
  [soil_type |-> PyNone, flood_frequency |-> PyNone, rainfall_intensity |-> PyNone,
   elevation_category |-> PyNone, distance_from_river |-> PyNone,
   rainfall_category |-> Absent]

\* the resolver's default of 1.0 given whatever the rule holds
RuleDistance_default_only(rule) == PyNum(10)

\* the value the resolver gives distance_from_river when a rule matched
RuleDistance(rule) == Get(rule.distance_from_river, PyNum(10))

\* the resolver without the rule and default tiers for rainfall and elevation:
\* float(None) raises when a lookup failed
_generate_features_from_location_live_only(rule, rain, elev) ==
  LET has_rule == rule # NoRule
      rainfall_category == _rainfall_category_from_mm(rain.value)
      flood_freq == IF has_rule THEN Get(rule.flood_frequency, PyNum(10)) ELSE PyNum(10)
      soil == IF has_rule THEN Get(rule.soil_type, PyStr("silt")) ELSE PyStr("silt")
      dist == IF has_rule THEN RuleDistance(rule) ELSE PyNum(20)
  IN  [raised |-> rain.value = PyNone \/ elev.value = PyNone,
       features |->
         [soil_type |-> soil, rainfall_intensity |-> rain.value,
          flood_frequency |-> flood_freq,
          elevation_category |-> _elevation_category_from_m(elev.value),
          distance_from_river |-> dist, rainfall_category |-> rainfall_category],
       meta |->
         [sources |-> [NoSources EXCEPT !.rainfall = rain.src, !.elevation = elev.src],
          region |-> IF has_rule THEN PyStr(rule.name) ELSE Absent,
          rainfall_category |-> rainfall_category,
          elevation_m |-> elev.value]]

_generate_features_from_location(rule, rain, elev) ==
  LET has_rule == rule # NoRule
      rainfall_category == _rainfall_category_from_mm(rain.value)
      elev_cat0 == _elevation_category_from_m(elev.value)
      \* lines 528-536: what the matched rule supplies
      flood0 == IF has_rule /\ FloatOk(rule.flood_frequency)
                THEN rule.flood_frequency ELSE PyNone
      soil0 == IF has_rule THEN rule.soil_type ELSE PyNone
      dist0 == IF has_rule THEN RuleDistance(rule) ELSE PyNone
      \* lines 538-565: the fallbacks
      rain_rule == rain.value = PyNone /\ has_rule /\ rule.rainfall_intensity # PyNone
      rainfall_intensity ==
        IF rain.value # PyNone THEN rain.value
        ELSE IF rain_rule THEN rule.rainfall_intensity ELSE PyNum(500)
      elev_rule == elev_cat0 = PyNone /\ has_rule /\ rule.elevation_category # PyNone
      elev_cat ==
        IF elev_cat0 # PyNone THEN elev_cat0
        ELSE IF elev_rule THEN rule.elevation_category ELSE PyStr("mid")
      flood_freq ==
        IF flood0 # PyNone THEN flood0
        ELSE IF has_rule THEN Get(rule.flood_frequency, PyNum(10)) ELSE PyNum(10)
      soil_type ==
        IF soil0 # PyNone THEN soil0
        ELSE IF has_rule THEN Get(rule.soil_type, PyStr("silt")) ELSE PyStr("silt")
      distance_from_river == IF dist0 # PyNone THEN dist0 ELSE PyNum(20)
      tier == IF has_rule THEN PyStr("region-rule") ELSE PyStr("default")
      sources ==
        [rainfall |-> IF rain.value # PyNone THEN rain.src
                      ELSE IF rain_rule THEN PyStr("region-rule") ELSE PyStr("default"),
         elevation |-> IF elev_cat0 # PyNone THEN elev.src
                       ELSE IF elev_rule THEN PyStr("region-rule") ELSE PyStr("default"),
         region_rule |-> IF has_rule THEN PyStr(rule.name) ELSE Absent,
         flood_frequency |-> IF flood0 = PyNone THEN tier ELSE Absent,
         soil_type |-> IF soil0 = PyNone THEN tier ELSE Absent,
         distance_from_river |-> IF dist0 = PyNone THEN tier ELSE Absent,
         manual_input |-> FALSE]
  IN  [raised |-> \/ has_rule /\ ~FloatOk(RuleDistance(rule))
                  \/ rain_rule /\ ~FloatOk(rule.rainfall_intensity)
                  \/ ~FloatOk(flood_freq),
       features |->
         [soil_type |-> soil_type, rainfall_intensity |-> rainfall_intensity,
          flood_frequency |-> flood_freq, elevation_category |-> elev_cat,
          distance_from_river |-> distance_from_river,
          rainfall_category |-> rainfall_category],
       meta |->
         [sources |-> sources,
          region |-> IF has_rule THEN PyStr(rule.name) ELSE Absent,
          rainfall_category |-> rainfall_category,
          elevation_m |-> elev.value]]

(***************************************************************************)
(* Attribution maps.  A dict of weights keeps its insertion order; every   *)
(* weight of one map is the fraction num[k] / den.                         *)
(***************************************************************************)
EmptyMap == [keys |-> <<>>, num |-> <<>>, den |-> 1]

Range(seq) == { seq[i] : i \in 1..Len(seq) }

RECURSIVE SumOver(_, _)
SumOver(f, S) ==
  IF S = {} THEN 0
  ELSE LET k == CHOOSE x \in S : TRUE IN f[k] + SumOver(f, S \ {k})

\* sum(m.values()), in units of 1/den
Total(m) == SumOver(m.num, Range(m.keys))

\* A column name: its pieces between '__', each piece split at '_'.
soil_type == <<"soil", "type">>
elevation_category == <<"elevation", "category">>
flood_frequency == <<"flood", "frequency">>
rainfall_intensity == <<"rainfall", "intensity">>
distance_from_river == <<"distance", "from", "river">>
CanonicalFeatures ==
  { soil_type, elevation_category, flood_frequency, rainfall_intensity,
    distance_from_river }

Cat(feature, value) == << <<"cat">>, feature \o <<value>> >>
Num(feature) == << <<"num">>, feature >>

\* pre.get_feature_names_out() of the trained pipeline (as in test_collapse.py)
EncodedColumns ==
  << Cat(soil_type, "clay"), Cat(soil_type, "loam"), Cat(soil_type, "sandy"),
     Cat(soil_type, "silt"), Cat(elevation_category, "high"),
     Cat(elevation_category, "low"), Cat(elevation_category, "mid"),
     Num(flood_frequency), Num(rainfall_intensity), Num(distance_from_river) >>
\* the names used when the preprocessor cannot name its columns: feature_0, ...
IndexedColumns ==
  [i \in 1..Len(EncodedColumns) |-> << <<"feature", ToString(i - 1)>> >>]

feature_mapping(original_feat) ==
  CASE original_feat \in CanonicalFeatures -> original_feat
    [] original_feat = <<"rainfall">> -> rainfall_intensity
    [] original_feat = <<"flood">> -> flood_frequency
    [] original_feat = <<"elevation">> -> elevation_category
    [] original_feat = <<"distance">> -> distance_from_river
    [] OTHER -> original_feat

\* lines 45-56: the canonical name of one transformed column
CanonicalName(feat_name) ==
  LET original_feat ==
        IF Len(feat_name) >= 2
        THEN IF feat_name[1] = <<"cat">> /\ Len(feat_name[2]) >= 2
             THEN SubSeq(feat_name[2], 1, Len(feat_name[2]) - 1)
             ELSE feat_name[2]
        ELSE feat_name[1]
  IN  feature_mapping(original_feat)

RECURSIVE CollapseFrom(_, _, _)
CollapseFrom(m, i, collapsed) ==
  IF i > Len(m.keys) THEN collapsed
  ELSE LET c == CanonicalName(m.keys[i])
           imp == m.num[m.keys[i]]
       IN  IF c \in Range(collapsed.keys)
           THEN CollapseFrom(m, i + 1,
                  [collapsed EXCEPT !.num = [@ EXCEPT ![c] = @ + imp]])
           ELSE CollapseFrom(m, i + 1,
                  [collapsed EXCEPT
                     !.keys = Append(@, c),
                     !.num = [k \in DOMAIN @ \cup {c} |->
                                IF k = c THEN imp ELSE @[k]]])

\* total = sum(values) or 1.0; {k: v / total}
Normalize(m) == IF Total(m) = 0 THEN m ELSE [m EXCEPT !.den = Total(m)]

_collapse_feature_importances(feature_importances_transformed) ==
  Normalize(CollapseFrom(feature_importances_transformed, 1,
                         [keys |-> <<>>, num |-> [k \in {} |-> 0],
                          den |-> feature_importances_transformed.den]))

\* {name: score} over the columns, in column order
ScoreMap(names, scores) ==
  [keys |-> names, num |-> [k \in Range(names) |->
                              scores[CHOOSE i \in 1..Len(names) : names[i] = k]],
   den |-> 1]

(***************************************************************************)
(* The classifier artifact (model/soil_model.pkl) and what it answers.     *)
(***************************************************************************)
Labels == {"Low", "Medium", "High"}
\* probability of the predicted class, in hundredths
Confidences == {50, 94, 95, 100}

\* steps    "pipeline": rf has named_steps 'pre' and 'clf'; "bare": it has not
\* columns  how the preprocessor names its output columns
\* builtin  clf.feature_importances_ per column, <<>> when clf has none
\* shap     |SHAP value| per column for the predicted class
\* proba    whether predict_proba is available
\* the artifact train_model.py saves: a forest on the encoded columns
ArtifactTrained ==
  [steps |-> "pipeline", columns |-> EncodedColumns,
   builtin |-> <<0, 11, 6, 0, 8, 18, 12, 9, 18, 18>>,
   shap |-> <<3, 0, 0, 0, 5, 0, 0, 2, 6, 4>>, proba |-> TRUE]
\* a forest whose trees never split: every per-column score is 0
ArtifactFlat ==
  [steps |-> "pipeline", columns |-> EncodedColumns,
   builtin |-> <<0, 0, 0, 0, 0, 0, 0, 0, 0, 0>>,
   shap |-> <<0, 0, 0, 0, 0, 0, 0, 0, 0, 0>>, proba |-> TRUE]
\* a pipeline whose preprocessor cannot name its columns and whose classifier
\* has importances, but no tree explainer and no predict_proba
ArtifactLegacy ==
  [steps |-> "pipeline", columns |-> IndexedColumns,
   builtin |-> <<2, 0, 1, 0, 3, 3, 0, 4, 5, 2>>, shap |-> <<>>, proba |-> FALSE]
\* an estimator that is no pipeline
ArtifactBare ==
  [steps |-> "bare", columns |-> IndexedColumns, builtin |-> <<>>, shap |-> <<>>,
   proba |-> FALSE]
\* a pipeline around a classifier that has no importances, no tree structure
\* and no predict_proba
ArtifactOpaque ==
  [steps |-> "pipeline", columns |-> EncodedColumns, builtin |-> <<>>,
   shap |-> <<>>, proba |-> FALSE]
Artifacts ==
  {ArtifactTrained, ArtifactFlat, ArtifactLegacy, ArtifactBare, ArtifactOpaque}
NoModel == [steps |-> "none", columns |-> <<>>, builtin |-> <<>>, shap |-> <<>>,
            proba |-> FALSE]

\* What the classifier answers on the request's row: rf.predict, the probability
\* of that class, and whether the SHAP explainer ran to its end.
ClassifierAnswers(artifact) ==
  { [pred |-> l, proba |-> c, shap_ok |-> b] :
      l \in Labels,
      c \in IF artifact.proba THEN Confidences ELSE {0},
      b \in IF artifact.shap = <<>> THEN {FALSE} ELSE BOOLEAN }
NoAnswer == [pred |-> "", proba |-> 0, shap_ok |-> FALSE]

\* predict_v1, lines 663-672: the probability of the predicted class, 1.0 when
\* predict_proba raises
ClassifierConfidence(artifact, a) == IF artifact.proba THEN a.proba ELSE 100

\* the row stacked on a background row before the columns are shuffled
Frame_with_background(X) == <<X, NoRow>>
\* pd.DataFrame([row]): the frame predict_v1 builds holds the one row
Frame(X) == <<X>>
\* np.random.permutation: the orders of n rows the generator can draw
Orders(n) ==
  { f \in [1..n -> 1..n] : \A a, b \in 1..n : f[a] = f[b] => a = b }
\* X_perm[:, i] = np.random.permutation(X_perm[:, i]): each row of the frame
\* gets column i of the row the shuffle put in its place
PermuteColumn(frame, i, order) == [r \in 1..Len(frame) |-> frame[order[r]]]
\* the classifier is a function of its input: on the same row, the same answer
AnswerOn(answer, X, Xq) == IF Xq = X THEN answer ELSE NoAnswer

Abs(x) == IF x < 0 THEN -x ELSE x

\* Scores in units of 1/10000.  The entropy is a function of the probability
\* vector, which the model holds as the probability of the predicted class.
_compute_feature_importance_permutation(artifact, answer, X, order) ==
  IF ~artifact.proba THEN EmptyMap
  ELSE LET names == artifact.columns
           score(i) ==
             \* clf.predict(X_perm)[0], clf.predict_proba(X_perm)[0]
             LET perm == AnswerOn(answer, X, PermuteColumn(Frame(X), i, order)[1])
                 pred_change == IF perm.pred # answer.pred THEN 1 ELSE 0
                 conf_change == Abs(answer.proba - perm.proba)
                 entropy_change == Abs(answer.proba - perm.proba)
             IN  pred_change * 7000 + conf_change * 15 + entropy_change * 15
       IN  Normalize(ScoreMap(names, [i \in 1..Len(names) |-> score(i)]))

\* a tier that raised, or whose result the cascade does not take
TierFailed == [keys |-> <<>>, num |-> <<>>, den |-> 0]

\* lines 137-158: shap.TreeExplainer on the one transformed row
TreeExplainerTier(artifact, answer) ==
  IF answer.shap_ok
  THEN _collapse_feature_importances(
         Normalize(ScoreMap(artifact.columns, artifact.shap)))
  ELSE TierFailed

\* lines 161-167
PermutationTier(artifact, answer, X, order) ==
  LET perm_imps == _compute_feature_importance_permutation(artifact, answer, X, order)
  IN  \* perm_total > 1e-6, with perm_total = Total / den
      IF perm_imps # EmptyMap /\ Total(perm_imps) > perm_imps.den \div 1000000
      THEN _collapse_feature_importances(perm_imps)
      ELSE TierFailed

\* lines 171-179: clf.feature_importances_
BuiltinTier(artifact) ==
  IF artifact.builtin # <<>>
  THEN _collapse_feature_importances(
         Normalize(ScoreMap(artifact.columns, artifact.builtin)))
  ELSE TierFailed

\* the built-in importances preferred to the per-prediction tiers
_local_feature_importance_builtin_first(artifact, answer, X, order) ==
  LET exact == TreeExplainerTier(artifact, answer)
      perm == PermutationTier(artifact, answer, X, order)
      builtin == BuiltinTier(artifact)
  IN  IF builtin # TierFailed THEN builtin
      ELSE IF exact # TierFailed THEN exact
      ELSE IF perm # TierFailed THEN perm
      ELSE EmptyMap

\* equal weights on the five features when no tier has an answer
_local_feature_importance_uniform_fallback(artifact, answer, X, order) ==
  LET exact == TreeExplainerTier(artifact, answer)
      perm == PermutationTier(artifact, answer, X, order)
      builtin == BuiltinTier(artifact)
  IN  IF exact # TierFailed THEN exact
      ELSE IF perm # TierFailed THEN perm
      ELSE IF builtin # TierFailed THEN builtin
      ELSE Normalize(ScoreMap(<<soil_type, elevation_category, flood_frequency,
                               rainfall_intensity, distance_from_river>>,
                             <<1, 1, 1, 1, 1>>))

_local_feature_importance(artifact, answer, X, order) ==
  LET exact == TreeExplainerTier(artifact, answer)
      perm == PermutationTier(artifact, answer, X, order)
      builtin == BuiltinTier(artifact)
  IN  IF exact # TierFailed THEN exact
      ELSE IF perm # TierFailed THEN perm
      ELSE IF builtin # TierFailed THEN builtin
      ELSE EmptyMap

(***************************************************************************)
(* RegionAdjuster.  While it scales, a weight is held in units of          *)
(* 1/(1000 * den) of the base map.                                         *)
(***************************************************************************)
\* the scaled weight left without its cap or floor
Scaled_unbounded(adj, den, key, dflt, mul, bound, cap) ==
  LET val == IF key \in Range(adj.keys) THEN (adj.num[key] * mul) \div 10
             ELSE dflt * mul * den
  IN  IF key \in Range(adj.keys)
      THEN [adj EXCEPT !.num = [@ EXCEPT ![key] = val]]
      ELSE [adj EXCEPT !.keys = Append(@, key),
                       !.num = [k \in DOMAIN @ \cup {key} |->
                                  IF k = key THEN val ELSE @[k]]]

\* adj[key] = min-or-max(adj.get(key, dflt) * mul, cap); mul in tenths,
\* dflt and cap in hundredths
Scaled(adj, den, key, dflt, mul, bound, cap) ==
  LET cur == IF key \in Range(adj.keys) THEN (adj.num[key] * mul) \div 10
             ELSE dflt * mul * den
      lim == cap * 10 * den
      val == IF bound = "min" THEN Min(cur, lim) ELSE Max(cur, lim)
  IN  IF key \in Range(adj.keys)
      THEN [adj EXCEPT !.num = [@ EXCEPT ![key] = val]]
      ELSE [adj EXCEPT !.keys = Append(@, key),
                       !.num = [k \in DOMAIN @ \cup {key} |->
                                  IF k = key THEN val ELSE @[k]]]

\* lines 351-378: whether a condition of the adjuster holds for a row and a
\* rule; none does when a float() raised
Deviates(what, row, region_rule) ==
  LET rain_norm == Get(region_rule.rainfall_intensity, PyNum(500))
      flood_norm == Get(region_rule.flood_frequency, PyNum(10))
      dist_norm == Get(region_rule.distance_from_river, PyNum(20))
      elev_norm == Get(region_rule.elevation_category, PyStr("mid"))
      soil_norm == Get(region_rule.soil_type, PyStr("silt"))
      \* row.get(key, default): a row built by predict_v1 holds every key
      rainfall0 == Get(row.rainfall_intensity, PyNum(0))
      flood0 == Get(row.flood_frequency, PyNum(10))
      dist0 == Get(row.distance_from_river, PyNum(20))
      elev_cat == Get(row.elevation_category, PyStr("mid"))
      soil == Get(row.soil_type, PyStr("silt"))
      raised == \E x \in { rainfall0, rain_norm, flood0, flood_norm, dist0, dist_norm } :
                  ~FloatOk(x)
      rainfall == rainfall0.v
      flood == flood0.v
      dist == dist0.v
      \* ratio > c, with the ratio x / max(norm, floor)
      rain_den == Max(rain_norm.v, 10)
      flood_den == Max(flood_norm.v, 10)
      dist_den == Max(dist_norm.v, 1)
  IN  CASE what = "raised" -> raised
        [] what = "rainfall" ->
             ~raised /\ (10 * rainfall > 15 * rain_den \/ 10 * rainfall < 5 * rain_den)
        [] what = "flood_high" -> ~raised /\ 10 * flood > 15 * flood_den
        [] what = "flood_near" ->
             ~raised /\ ~(10 * flood > 15 * flood_den) /\ 10 * flood > 8 * flood_den
        [] what = "dist_near" -> ~raised /\ dist < 10
        [] what = "dist_ratio" -> ~raised /\ ~(dist < 10) /\ 10 * dist < 3 * dist_den
        [] what = "elevation" -> ~raised /\ elev_cat # elev_norm
        [] what = "soil" -> ~raised /\ soil # soil_norm

\* lines 364-381: the scalings whose conditions d holds, then the normalisation
ApplyScalings(base_importances, d) ==
  LET den == base_importances.den
      a0 == [keys |-> base_importances.keys,
             num |-> [k \in DOMAIN base_importances.num |->
                        1000 * base_importances.num[k]],
             den |-> 1000 * den]
      a1 == IF d.rainfall
            THEN Scaled(a0, den, rainfall_intensity, 20, 14, "min", 40) ELSE a0
      a2 == IF d.flood_high
            THEN Scaled(a1, den, flood_frequency, 15, 13, "min", 35)
            ELSE IF d.flood_near
            THEN Scaled(a1, den, flood_frequency, 15, 8, "max", 5) ELSE a1
      a3 == IF d.dist_near
            THEN Scaled(a2, den, distance_from_river, 18, 15, "min", 40)
            ELSE IF d.dist_ratio
            THEN Scaled(a2, den, distance_from_river, 18, 12, "min", 35) ELSE a2
      a4 == IF d.elevation
            THEN Scaled(a3, den, elevation_category, 16, 13, "min", 35) ELSE a3
      a5 == IF d.soil
            THEN Scaled(a4, den, soil_type, 25, 12, "min", 40) ELSE a4
  IN  IF Total(a5) > 0 THEN [a5 EXCEPT !.den = Total(a5)] ELSE a5

_compute_region_adjusted_importances(base_importances, row, region_rule) ==
  IF region_rule = NoRule THEN base_importances
  ELSE IF Deviates("raised", row, region_rule) THEN base_importances
  ELSE ApplyScalings(base_importances,
         [rainfall |-> Deviates("rainfall", row, region_rule),
          flood_high |-> Deviates("flood_high", row, region_rule),
          flood_near |-> Deviates("flood_near", row, region_rule),
          dist_near |-> Deviates("dist_near", row, region_rule),
          dist_ratio |-> Deviates("dist_ratio", row, region_rule),
          elevation |-> Deviates("elevation", row, region_rule),
          soil |-> Deviates("soil", row, region_rule)])

(***************************************************************************)
(* RiskPostprocessor.                                                      *)
(***************************************************************************)
\* str(pred).lower()
Lower(label) ==
  CASE label = "High" -> "high"
    [] label = "Medium" -> "medium"
    [] label = "Low" -> "low"
    [] OTHER -> label

DemotionNote ==
  "Adjusted from High to Medium because of low recent rainfall and high elevation."
PromotionNote ==
  "Upgraded to High due to heavy rain, frequent flooding and proximity to river."
NoNote == ""

\* the demotion guard written "confidence <= 0.95"
_postprocess_demotes_at_limit(pred, confidence, row) ==
  LET rain == row.rainfall_intensity.v
      flood == row.flood_frequency.v
      dist == row.distance_from_river.v
  IN  IF /\ Lower(pred) = "high" /\ rain < 200
         /\ row.elevation_category = PyStr("high") /\ confidence <= 95
      THEN [label |-> "Medium", confidence |-> Min(confidence + 5, 95),
            note |-> DemotionNote]
      ELSE IF Lower(pred) # "high" /\ rain >= 1200 /\ flood >= 30 /\ dist <= 15
      THEN [label |-> "High", confidence |-> Min(Max(confidence, 60) + 5, 99),
            note |-> PromotionNote]
      ELSE [label |-> pred, confidence |-> confidence, note |-> NoNote]

\* the promotion guard written "rain > 120.0"
_postprocess_strict_rain(pred, confidence, row) ==
  LET rain == row.rainfall_intensity.v
      flood == row.flood_frequency.v
      dist == row.distance_from_river.v
  IN  IF /\ Lower(pred) = "high" /\ rain < 200
         /\ row.elevation_category = PyStr("high") /\ confidence < 95
      THEN [label |-> "Medium", confidence |-> Min(confidence + 5, 95),
            note |-> DemotionNote]
      ELSE IF Lower(pred) # "high" /\ rain > 1200 /\ flood >= 30 /\ dist <= 15
      THEN [label |-> "High", confidence |-> Min(Max(confidence, 60) + 5, 99),
            note |-> PromotionNote]
      ELSE [label |-> pred, confidence |-> confidence, note |-> NoNote]

\* the demoted confidence left without its cap of 0.95
_postprocess_uncapped_demotion(pred, confidence, row) ==
  LET rain == row.rainfall_intensity.v
      flood == row.flood_frequency.v
      dist == row.distance_from_river.v
  IN  IF /\ Lower(pred) = "high" /\ rain < 200
         /\ row.elevation_category = PyStr("high") /\ confidence < 95
      THEN [label |-> "Medium", confidence |-> confidence + 5,
            note |-> DemotionNote]
      ELSE IF Lower(pred) # "high" /\ rain >= 1200 /\ flood >= 30 /\ dist <= 15
      THEN [label |-> "High", confidence |-> Min(Max(confidence, 60) + 5, 99),
            note |-> PromotionNote]
      ELSE [label |-> pred, confidence |-> confidence, note |-> NoNote]

\* the promoted confidence left without its floor of 0.6
_postprocess_no_floor(pred, confidence, row) ==
  LET rain == row.rainfall_intensity.v
      flood == row.flood_frequency.v
      dist == row.distance_from_river.v
  IN  IF /\ Lower(pred) = "high" /\ rain < 200
         /\ row.elevation_category = PyStr("high") /\ confidence < 95
      THEN [label |-> "Medium", confidence |-> Min(confidence + 5, 95),
            note |-> DemotionNote]
      ELSE IF Lower(pred) # "high" /\ rain >= 1200 /\ flood >= 30 /\ dist <= 15
      THEN [label |-> "High", confidence |-> Min(confidence + 5, 99),
            note |-> PromotionNote]
      ELSE [label |-> pred, confidence |-> confidence, note |-> NoNote]

\* the demotion guard without its rainfall condition
_postprocess_demotes_any_rain(pred, confidence, row) ==
  LET rain == row.rainfall_intensity
      elev == row.elevation_category
      flood == row.flood_frequency
      dist == row.distance_from_river
      unchanged == [label |-> pred, confidence |-> confidence, note |-> NoNote]
  IN  IF ~FloatOk(rain) \/ ~FloatOk(flood) \/ ~FloatOk(dist) THEN unchanged
      ELSE IF /\ Lower(pred) = "high"
              /\ elev = PyStr("high") /\ confidence < 95
      THEN [label |-> "Medium", confidence |-> Min(confidence + 5, 95),
            note |-> DemotionNote]
      ELSE IF /\ Lower(pred) # "high"
              /\ rain.v >= 1200 /\ flood.v >= 30 /\ dist.v <= 15
      THEN [label |-> "High", confidence |-> Min(Max(confidence, 60) + 5, 99),
            note |-> PromotionNote]
      ELSE unchanged

\* the promotion without its cap of 0.99
_postprocess_uncapped_promotion(pred, confidence, row) ==
  LET rain == row.rainfall_intensity
      elev == row.elevation_category
      flood == row.flood_frequency
      dist == row.distance_from_river
      unchanged == [label |-> pred, confidence |-> confidence, note |-> NoNote]
  IN  IF ~FloatOk(rain) \/ ~FloatOk(flood) \/ ~FloatOk(dist) THEN unchanged
      ELSE IF /\ Lower(pred) = "high" /\ rain.v < 200
              /\ elev = PyStr("high") /\ confidence < 95
      THEN [label |-> "Medium", confidence |-> Min(confidence + 5, 95),
            note |-> DemotionNote]
      ELSE IF /\ Lower(pred) # "high"
              /\ rain.v >= 1200 /\ flood.v >= 30 /\ dist.v <= 15
      THEN [label |-> "High", confidence |-> Max(confidence, 60) + 5,
            note |-> PromotionNote]
      ELSE unchanged

_postprocess(pred, confidence, row) ==
  LET rain == row.rainfall_intensity
      elev == row.elevation_category
      flood == row.flood_frequency
      dist == row.distance_from_river
      unchanged == [label |-> pred, confidence |-> confidence, note |-> NoNote]
  IN  IF ~FloatOk(rain) \/ ~FloatOk(flood) \/ ~FloatOk(dist) THEN unchanged
      ELSE IF /\ Lower(pred) = "high" /\ rain.v < 200
              /\ elev = PyStr("high") /\ confidence < 95
      THEN [label |-> "Medium", confidence |-> Min(confidence + 5, 95),
            note |-> DemotionNote]
      ELSE IF /\ Lower(pred) # "high"
              /\ rain.v >= 1200 /\ flood.v >= 30 /\ dist.v <= 15
      THEN [label |-> "High", confidence |-> Min(Max(confidence, 60) + 5, 99),
            note |-> PromotionNote]
      ELSE unchanged

(***************************************************************************)
(* ExplanationComposer.  A sentence is held as its template and the value  *)
(* printed in it.                                                          *)
(***************************************************************************)
\* the dict key of a canonical feature name
FieldOf(f) ==
  CASE f = soil_type -> "soil_type"
    [] f = flood_frequency -> "flood_frequency"
    [] f = rainfall_intensity -> "rainfall_intensity"
    [] f = elevation_category -> "elevation_category"
    [] f = distance_from_river -> "distance_from_river"
    [] OTHER -> ""

\* sorted(importances.items(), key=weight, reverse=True): a stable sort, equal
\* weights keep their insertion order
RECURSIVE SortedByWeight(_, _)
SortedByWeight(m, left) ==
  IF left = {} THEN <<>>
  ELSE LET best == CHOOSE i \in left :
                     \A j \in left :
                       \/ m.num[m.keys[i]] > m.num[m.keys[j]]
                       \/ m.num[m.keys[i]] = m.num[m.keys[j]] /\ i <= j
       IN  <<m.keys[best]>> \o SortedByWeight(m, left \ {best})

\* f"{v:.0f}" of a value held in tenths: to the nearest integer, halves to even
Format0(tenths) ==
  LET q == tenths \div 10
      r == tenths % 10
  IN  IF r < 5 THEN q ELSE IF r > 5 THEN q + 1 ELSE IF q % 2 = 0 THEN q ELSE q + 1

Sentence(template, value) == [template |-> template, value |-> value]

\* lines 278-327: the sentence for one feature
SentenceFor(f, input_row) ==
  LET val == IF FieldOf(f) = "" THEN PyNone ELSE input_row[FieldOf(f)]
  IN  CASE f = soil_type -> <<Sentence("Soil type can affect post-flood stability", val)>>
        [] f = flood_frequency ->
             IF ~FloatOk(val) THEN <<Sentence("Flood frequency considered", val)>>
             ELSE IF val.v >= 30
             THEN <<Sentence("Frequent flooding increases saturation and erosion risk",
                             PyNum(val.v \div 10))>>
             ELSE <<Sentence("Flood occurrences are a contributing factor",
                             PyNum(val.v \div 10))>>
        [] f = rainfall_intensity ->
             IF ~FloatOk(val) THEN <<Sentence("Rainfall considered", val)>>
             ELSE LET cat == _rainfall_category_from_mm(val)
                      mm == PyNum(Format0(val.v))
                  IN  IF cat = PyStr("Heavy")
                      THEN <<Sentence("Heavy rainfall raises landslip and saturation risk", mm)>>
                      ELSE IF cat = PyStr("Moderate")
                      THEN <<Sentence("Moderate rainfall increases soil moisture and erosion potential", mm)>>
                      ELSE <<Sentence("Light rainfall less likely to cause acute saturation", mm)>>
        [] f = elevation_category ->
             IF val \in {PyStr("low"), PyStr("mid")}
             THEN <<Sentence("Lower elevation is more flood-prone and increases risk", val)>>
             ELSE <<Sentence("Elevation provides some protection against flooding", val)>>
        [] f = distance_from_river ->
             IF ~FloatOk(val) THEN <<Sentence("Distance from river considered", val)>>
             ELSE IF val.v < 10
             THEN <<Sentence("Very close to river which raises flood exposure", val)>>
             ELSE <<Sentence("Distance from river affects exposure", val)>>
        [] OTHER -> <<>>

\* the sentences of the three heaviest features, in that order
_simple_explanation(input_row, importances) ==
  LET items == SortedByWeight(importances, 1..Len(importances.keys))
      top == SubSeq(items, 1, Min(3, Len(items)))
      RECURSIVE Parts(_)
      Parts(i) == IF i > Len(top) THEN <<>>
                  ELSE SentenceFor(top[i], input_row) \o Parts(i + 1)
  IN  Parts(1)

_recommendation_for_risk(risk_level) ==
  IF Lower(risk_level) = "high" THEN "High risk"
  ELSE IF Lower(risk_level) = "medium" THEN "Moderate risk"
  ELSE "Low risk"

\* lines 718-722: the sentences, then the region, then the postprocessor's note
NoExplanation == [parts |-> <<>>, region |-> Absent, note |-> NoNote]

\* The explanation as a string: a sequence of pieces of text.  Every sentence
\* of _simple_explanation ends with a full stop, and ' '.join puts a space
\* between two sentences.
FullStop == Sentence(".", PyNone)
Space == Sentence(" ", PyNone)
RECURSIVE Joined(_, _)
Joined(parts, i) ==
  IF i > Len(parts) THEN <<>>
  ELSE <<parts[i], FullStop>>
       \o (IF i < Len(parts) THEN <<Space>> ELSE <<>>) \o Joined(parts, i + 1)

\* the postprocessor's note put before the region
Text_note_first(explanation) ==
  Joined(explanation.parts, 1)
  \o (IF explanation.note # NoNote
      THEN <<Space, Sentence(explanation.note, PyNone)>> ELSE <<>>)
  \o (IF explanation.region # Absent
      THEN <<Space, Sentence("Region:", explanation.region)>> ELSE <<>>)

\* lines 718-722: explanation, += f" Region: {region}", += ' ' + adj_note
Text(explanation) ==
  Joined(explanation.parts, 1)
  \o (IF explanation.region # Absent
      THEN <<Space, Sentence("Region:", explanation.region)>> ELSE <<>>)
  \o (IF explanation.note # NoNote
      THEN <<Space, Sentence(explanation.note, PyNone)>> ELSE <<>>)

\* str.split('. '): the pieces between the occurrences of a full stop followed
\* by a space; the empty string gives one empty piece
RECURSIVE SplitFrom(_, _, _)
SplitFrom(text, i, piece) ==
  IF i > Len(text) THEN <<piece>>
  ELSE IF i < Len(text) /\ text[i] = FullStop /\ text[i + 1] = Space
  THEN <<piece>> \o SplitFrom(text, i + 2, <<>>)
  ELSE SplitFrom(text, i + 1, Append(piece, text[i]))
Split(text) == SplitFrom(text, 1, <<>>)

Disclaimer == "Predictions are indicative and based on available environmental data."

(***************************************************************************)
(* Requests.                                                               *)
(***************************************************************************)
Request(endpoint, lat, lon, soil, flood, rain, elev, dist) ==
  [endpoint |-> endpoint, latitude |-> lat, longitude |-> lon,
   soil_type |-> soil, flood_frequency |-> flood, rainfall_intensity |-> rain,
   elevation_category |-> elev, distance_from_river |-> dist]

\* {latitude, longitude}
CoordinateRequests ==
  { Request("predict", PyNum(la), PyNum(lo), Absent, Absent, Absent, Absent, Absent) :
      la \in 0..MaxLat, lo \in 0..MaxLon }
\* coordinates with the manual fields beside them (test_debug_test5_with_latlon.py)
MixedRequests ==
  { Request("predict", PyNum(la), PyNum(0), PyStr("clay"), PyNum(80), PyNum(2000),
            PyStr("low"), PyNum(1)) : la \in {0, MaxLat} }
\* the manual fields alone
ManualRequests ==
  { Request("predict", Absent, Absent, PyStr("clay"), PyNum(f), PyNum(r), PyStr(e), d) :
      f \in {10, 30}, r \in {100, 200, 1200}, e \in {"low", "high"},
      d \in {Absent, PyNum(15), PyNum(20)} }
\* payloads that lack something, or hold a value that is no number
BrokenRequests ==
  { Request("predict", Absent, Absent, Absent, Absent, Absent, Absent, Absent),
    Request("predict", Absent, Absent, Absent, PyNum(30), PyNum(1200), PyStr("low"), PyNum(15)),
    Request("predict", Absent, Absent, PyStr("clay"), Absent, PyNum(1200), PyStr("low"), PyNum(15)),
    Request("predict", Absent, Absent, PyStr("clay"), PyNum(30), Absent, PyStr("low"), PyNum(15)),
    Request("predict", Absent, Absent, PyStr("clay"), PyNum(30), PyNum(1200), Absent, PyNum(15)),
    Request("predict", Absent, Absent, PyStr("clay"), PyStr("often"), PyNum(1200), PyStr("low"), PyNum(15)),
    Request("predict", PyStr("north"), PyNum(0), Absent, Absent, Absent, Absent, Absent),
    Request("predict", PyNum(0), PyStr("east"), PyStr("clay"), PyNum(30), PyNum(1200), PyStr("low"), PyNum(15)),
    Request("predict", PyNum(1), Absent, Absent, Absent, Absent, Absent, Absent),
    Request("predict", PyNum(1), Absent, PyStr("clay"), PyNum(30), PyNum(1200), PyStr("high"), Absent) }
\* the same through /api/v1/predict-location
LocationRequests ==
  { Request("predict-location", PyNum(1), PyNum(1), Absent, Absent, Absent, Absent, Absent),
    Request("predict-location", PyNum(1), Absent, PyStr("clay"), PyNum(30), PyNum(1200), PyStr("high"), Absent),
    Request("predict-location", Absent, Absent, Absent, Absent, Absent, Absent, Absent),
    Request("predict-location", PyStr("north"), PyNum(0), Absent, Absent, Absent, Absent, Absent) }
Requests ==
  CoordinateRequests \cup MixedRequests \cup ManualRequests \cup BrokenRequests
    \cup LocationRequests
NoRequest == Request("", Absent, Absent, Absent, Absent, Absent, Absent, Absent)

\* the test written with "or"
HasCoordinates_either(r) == r.latitude # PyNone \/ r.longitude # PyNone
\* lines 613 and 591: which branch a payload takes
HasCoordinates(r) == r.latitude # PyNone /\ r.longitude # PyNone
RefusedByLocation(r) == r.endpoint = "predict-location" /\ ~HasCoordinates(r)
NumericCoordinates(r) == FloatOk(r.latitude) /\ FloatOk(r.longitude)
\* the list of required fields without its last entry
MissingField_without_elevation(r) ==
  IF r.soil_type = Absent THEN "soil_type"
  ELSE IF r.flood_frequency = Absent THEN "flood_frequency"
  ELSE IF r.rainfall_intensity = Absent THEN "rainfall_intensity"
  ELSE ""
\* lines 630-633: the first required field the payload lacks, "" when none
MissingField(r) ==
  IF r.soil_type = Absent THEN "soil_type"
  ELSE IF r.flood_frequency = Absent THEN "flood_frequency"
  ELSE IF r.rainfall_intensity = Absent THEN "rainfall_intensity"
  ELSE IF r.elevation_category = Absent THEN "elevation_category"
  ELSE ""
\* lines 634-640
ManualRow(r) ==
  [soil_type |-> r.soil_type, flood_frequency |-> r.flood_frequency,
   rainfall_intensity |-> r.rainfall_intensity,
   elevation_category |-> r.elevation_category,
   distance_from_river |-> Get(r.distance_from_river, PyNum(0)),
   rainfall_category |-> Absent]
ManualRowRaises(r) ==
  \/ ~FloatOk(r.flood_frequency)
  \/ ~FloatOk(r.rainfall_intensity)
  \/ ~FloatOk(Get(r.distance_from_river, PyNum(0)))
ManualMeta == [NoMeta EXCEPT !.sources.manual_input = TRUE]

(***************************************************************************)
(* Responses.                                                              *)
(***************************************************************************)
NoResponse ==
  [status |-> 0, error |-> "", risk_level |-> "", confidence |-> 0,
   probabilities |-> FALSE, note |-> NoNote, feature_importances |-> EmptyMap,
   region |-> Absent, location |-> FALSE, inferred_features |-> NoRow,
   meta_sources |-> NoSources, explanation |-> NoExplanation,
   recommendation |-> "", influencing_factors |-> <<>>, disclaimer |-> ""]
ErrorResponse(status, error) ==
  [NoResponse EXCEPT !.status = status, !.error = error]

(***************************************************************************)
(* The process: the module globals and the request being handled.          *)
(***************************************************************************)
VARIABLES
  model,         \* the global `model`: NoModel (None) or the loaded artifact
  model_file,    \* what MODEL_PATH holds: NoModel when the file does not exist
  REGION_RULES,  \* the rule table loaded at start
  pc,            \* where the handler of the current request stands
  req,           \* the JSON payload
  lat, lon,      \* the handler's lat and lon
  rain, elev,    \* what the fetchers returned
  calls,         \* the external calls and pipeline stages run for this request
  row, meta,     \* the feature row and its provenance
  answer,        \* what the classifier answered on the row
  importances,   \* the attribution engine's output (base_importances)
  resp,          \* the response
  threads,       \* the handlers of the threaded server, one per worker thread
  previous,      \* the response the client received to its previous submission
  probe          \* a direct call of a helper: its argument and its result

vars == <<model, model_file, REGION_RULES, pc, req, lat, lon, rain, elev, calls,
          row, meta, answer, importances, resp, threads, previous, probe>>
globals == <<model, model_file, REGION_RULES>>
\* what the sequential handler never touches
side_vars == <<threads, previous, probe>>
NoProbe == [fn |-> "", arg |-> PyNone, result |-> PyNone]

\* Worker threads of the server (app.run serves each request on its own thread).
NumThreads == 2
Threads == 1..NumThreads
\* a handler's position and locals: what joblib.load returned to it, and the
\* classifier it read from the global for its prediction
IdleThread == [pc |-> "idle", loaded |-> NoModel, rf |-> NoModel, status |-> 0]

Init ==
  /\ REGION_RULES \in RuleTables
  /\ model_file \in {NoModel} \cup Artifacts
  /\ model \in {NoModel, model_file}
  /\ pc = "idle"
  /\ req = NoRequest
  /\ lat = PyNone /\ lon = PyNone
  /\ rain = NotFetched /\ elev = NotFetched
  /\ calls = <<>>
  /\ row = NoRow /\ meta = NoMeta
  /\ answer = NoAnswer
  /\ importances = EmptyMap
  /\ resp = NoResponse
  /\ threads = [t \in Threads |-> IdleThread]
  /\ previous = NoResponse
  /\ probe = NoProbe

\* the handler returns before it has a row
Reject(r, response) ==
  /\ pc = "idle"
  /\ r \in Requests
  /\ req' = r
  /\ lat' = r.latitude /\ lon' = r.longitude
  /\ resp' = response
  /\ pc' = "done"
  /\ UNCHANGED <<side_vars, globals, rain, elev, calls, row, meta, answer, importances>>

\* predict_by_location, lines 587-592
RejectAtLocationEndpoint ==
  /\ pc = "idle"
  /\ \E r \in Requests :
       /\ RefusedByLocation(r)
       /\ Reject(r, ErrorResponse(400, "Missing latitude or longitude"))

\* predict_v1, lines 613-617
RejectNonNumericCoordinates ==
  /\ pc = "idle"
  /\ \E r \in Requests :
       /\ ~RefusedByLocation(r)
       /\ HasCoordinates(r) /\ ~NumericCoordinates(r)
       /\ Reject(r, ErrorResponse(400, "Latitude and longitude must be numeric"))

\* predict_v1, lines 630-633
RejectMissingField ==
  /\ pc = "idle"
  /\ \E r \in Requests :
       /\ ~RefusedByLocation(r)
       /\ ~HasCoordinates(r) /\ MissingField(r) # ""
       /\ Reject(r, ErrorResponse(400, MissingField(r)))

\* predict_v1, lines 634-640 raising into the handler's except (751-753)
ManualFieldRaises ==
  /\ pc = "idle"
  /\ \E r \in Requests :
       /\ ~RefusedByLocation(r)
       /\ ~HasCoordinates(r) /\ MissingField(r) = "" /\ ManualRowRaises(r)
       /\ Reject(r, ErrorResponse(500, "Server error"))

\* predict_v1, lines 628-641: the manual fields become the row
AcceptManualFields ==
  /\ pc = "idle"
  /\ \E r \in Requests :
       /\ ~RefusedByLocation(r)
       /\ ~HasCoordinates(r) /\ MissingField(r) = "" /\ ~ManualRowRaises(r)
       /\ req' = r
       /\ lat' = r.latitude /\ lon' = r.longitude
       /\ row' = ManualRow(r)
       /\ meta' = ManualMeta
       /\ pc' = "ensure"
       /\ UNCHANGED <<side_vars, globals, rain, elev, calls, answer, importances, resp>>

\* predict_v1, lines 613-619: on to _generate_features_from_location
AcceptCoordinates ==
  /\ pc = "idle"
  /\ \E r \in Requests :
       /\ ~RefusedByLocation(r)
       /\ HasCoordinates(r) /\ NumericCoordinates(r)
       /\ req' = r
       /\ lat' = r.latitude /\ lon' = r.longitude
       /\ pc' = "rainfall"
       /\ UNCHANGED <<side_vars, globals, rain, elev, calls, row, meta, answer, importances, resp>>

\* _generate_features_from_location, line 504
FetchRainfall ==
  /\ pc = "rainfall"
  /\ \E reply \in RainfallReplies : rain' = _fetch_recent_rainfall_mm(reply)
  /\ calls' = Append(calls, "rainfall")
  /\ pc' = "elevation"
  /\ UNCHANGED <<side_vars, globals, req, lat, lon, elev, row, meta, answer, importances, resp>>

\* the second source asked whatever the first one answered
FetchElevationOpenElevation_always_second ==
  /\ pc = "elevation"
  /\ \E reply \in ElevationReplies :
       /\ elev' = _fetch_elevation_m_open_elevation(reply)
       /\ pc' = "elevation2"
  /\ calls' = Append(calls, "open-elevation")
  /\ UNCHANGED <<side_vars, globals, req, lat, lon, rain, row, meta, answer, importances, resp>>

\* _fetch_elevation_m, lines 437-448
FetchElevationOpenElevation ==
  /\ pc = "elevation"
  /\ \E reply \in ElevationReplies :
       /\ elev' = _fetch_elevation_m_open_elevation(reply)
       /\ pc' = IF reply.kind = "ok" THEN "resolve" ELSE "elevation2"
  /\ calls' = Append(calls, "open-elevation")
  /\ UNCHANGED <<side_vars, globals, req, lat, lon, rain, row, meta, answer, importances, resp>>

\* _fetch_elevation_m, lines 450-460
FetchElevationOpenMeteo ==
  /\ pc = "elevation2"
  /\ \E reply \in ElevationReplies : elev' = _fetch_elevation_m_open_meteo(reply)
  /\ calls' = Append(calls, "open-meteo")
  /\ pc' = "resolve"
  /\ UNCHANGED <<side_vars, globals, req, lat, lon, rain, row, meta, answer, importances, resp>>

\* _generate_features_from_location, lines 508-580, and predict_v1, lines 619-627
ResolveFeatures ==
  /\ pc = "resolve"
  /\ LET g == _generate_features_from_location(
                _lookup_region_rule(REGION_RULES, lat.v, lon.v), rain, elev)
     IN  IF g.raised
         THEN /\ resp' = ErrorResponse(500, "Server error")
              /\ pc' = "done"
              /\ UNCHANGED <<row, meta>>
         ELSE /\ row' = g.features
              /\ meta' = g.meta
              /\ pc' = "ensure"
              /\ UNCHANGED resp
  /\ UNCHANGED <<side_vars, globals, req, lat, lon, rain, elev, calls, answer, importances>>

ModelNotLoaded ==
  ErrorResponse(500, "Model not loaded. Train and save a model with model/train_model.py")

\* the handler without its `if model is None` return
EnsureModelLoaded_unchecked ==
  /\ pc = "ensure"
  /\ model' = IF model = NoModel THEN model_file ELSE model
  /\ pc' = "infer"
  /\ UNCHANGED <<side_vars, model_file, REGION_RULES, req, lat, lon, rain, elev, calls, row,
                 meta, answer, importances, resp>>

\* _ensure_model_loaded and predict_v1, lines 646-648
EnsureModelLoaded ==
  /\ pc = "ensure"
  /\ \/ /\ model # NoModel
        /\ pc' = "infer"
        /\ UNCHANGED <<model, resp, calls>>
     \/ /\ model = NoModel /\ model_file = NoModel
        /\ resp' = ModelNotLoaded
        /\ pc' = "done"
        /\ UNCHANGED <<model, calls>>
     \/ /\ model = NoModel /\ model_file # NoModel
        /\ \/ /\ model' = model_file
              /\ pc' = "infer"
              /\ UNCHANGED <<resp, calls>>
           \/ /\ resp' = ModelNotLoaded
              /\ pc' = "done"
              /\ UNCHANGED <<model, calls>>
  /\ UNCHANGED <<side_vars, model_file, REGION_RULES, req, lat, lon, rain, elev, row, meta,
                 answer, importances>>

\* the recommendation chosen for the classifier's own label
predict_v1_recommends_raw_label(rf, a, X, la, lo, m, rules, order) ==
  LET base == IF rf.steps = "pipeline"
              THEN _local_feature_importance(rf, a, X, order) ELSE EmptyMap
      confidence == ClassifierConfidence(rf, a)
      post == _postprocess(a.pred, confidence, X)
      coords == la # PyNone /\ lo # PyNone
      rule == IF coords THEN _lookup_region_rule(rules, la.v, lo.v) ELSE NoRule
      adjusted == _compute_region_adjusted_importances(base, X, rule)
      explanation == [parts |-> _simple_explanation(X, adjusted),
                      region |-> m.region, note |-> post.note]
  IN  [importances |-> base,
       resp |->
         [status |-> 200, error |-> "", risk_level |-> post.label,
          confidence |-> post.confidence, probabilities |-> rf.proba,
          note |-> post.note, feature_importances |-> adjusted,
          region |-> m.region, location |-> coords,
          inferred_features |-> IF coords THEN X ELSE NoRow,
          meta_sources |-> IF coords THEN m.sources ELSE NoSources,
          explanation |-> explanation,
          recommendation |-> _recommendation_for_risk(a.pred),
          influencing_factors |-> Split(Text(explanation)),
          disclaimer |-> Disclaimer]]

\* predict_v1, lines 651-749: what the handler computes from the classifier rf,
\* its answer a on the row X, and the order the generator draws
predict_v1(rf, a, X, la, lo, m, rules, order) ==
  LET base == IF rf.steps = "pipeline"
              THEN _local_feature_importance(rf, a, X, order) ELSE EmptyMap
      confidence == ClassifierConfidence(rf, a)
      post == _postprocess(a.pred, confidence, X)
      coords == la # PyNone /\ lo # PyNone
      rule == IF coords THEN _lookup_region_rule(rules, la.v, lo.v) ELSE NoRule
      adjusted == _compute_region_adjusted_importances(base, X, rule)
      explanation == [parts |-> _simple_explanation(X, adjusted),
                      region |-> m.region, note |-> post.note]
  IN  [importances |-> base,
       resp |->
         [status |-> 200, error |-> "", risk_level |-> post.label,
          confidence |-> post.confidence, probabilities |-> rf.proba,
          note |-> post.note, feature_importances |-> adjusted,
          region |-> m.region, location |-> coords,
          inferred_features |-> IF coords THEN X ELSE NoRow,
          meta_sources |-> IF coords THEN m.sources ELSE NoSources,
          explanation |-> explanation,
          recommendation |-> _recommendation_for_risk(post.label),
          influencing_factors |-> Split(Text(explanation)),
          disclaimer |-> Disclaimer]]

\* predict_v1, lines 651-749
Infer ==
  /\ pc = "infer"
  /\ \E a \in ClassifierAnswers(model), order \in Orders(Len(Frame(row))) :
       LET out == predict_v1(model, a, row, lat, lon, meta, REGION_RULES, order)
       IN  /\ answer' = a
           /\ importances' = out.importances
           /\ resp' = out.resp
  /\ calls' = calls \o <<"classifier", "attribution", "postprocess">>
  /\ pc' = "done"
  /\ UNCHANGED <<side_vars, globals, req, lat, lon, rain, elev, row, meta>>

\* the response leaves; the next request finds the globals as they are
Respond ==
  /\ pc = "done"
  /\ pc' = "idle"
  /\ req' = NoRequest
  /\ lat' = PyNone /\ lon' = PyNone
  /\ rain' = NotFetched /\ elev' = NotFetched
  /\ calls' = <<>>
  /\ row' = NoRow /\ meta' = NoMeta
  /\ answer' = NoAnswer
  /\ importances' = EmptyMap
  /\ resp' = NoResponse
  /\ UNCHANGED <<side_vars, globals>>

\* model/train_model.py writes the artifact while the server runs
train_and_save ==
  /\ pc = "idle"
  /\ model_file = NoModel
  /\ model_file' \in Artifacts
  /\ UNCHANGED <<side_vars, model, REGION_RULES, pc, req, lat, lon, rain, elev, calls, row,
                 meta, answer, importances, resp>>

Next ==
  \/ RejectAtLocationEndpoint
  \/ RejectNonNumericCoordinates
  \/ RejectMissingField
  \/ ManualFieldRaises
  \/ AcceptManualFields
  \/ AcceptCoordinates
  \/ FetchRainfall
  \/ FetchElevationOpenElevation
  \/ FetchElevationOpenMeteo
  \/ ResolveFeatures
  \/ EnsureModelLoaded
  \/ Infer
  \/ Respond
  \/ train_and_save

Spec == Init /\ [][Next]_vars

(***************************************************************************)
(* The threaded server: handlers of concurrent requests interleave at the  *)
(* reads and writes of the global `model`.  A handler's steps are the      *)
(* statements of _ensure_model_loaded and predict_v1 that touch it.        *)
(***************************************************************************)
request_vars == <<pc, req, lat, lon, rain, elev, calls, row, meta, answer,
                  importances, resp>>

ThreadStep(t, next) ==
  /\ threads' = [threads EXCEPT ![t] = next]
  /\ UNCHANGED <<request_vars, previous, probe>>

\* predict_v1, lines 607-646: a valid request has its row and calls
\* _ensure_model_loaded
ThreadBegin(t) ==
  /\ threads[t].pc = "idle"
  /\ ThreadStep(t, [IdleThread EXCEPT !.pc = "test"])
  /\ UNCHANGED globals

\* _ensure_model_loaded, line 224: `if model is None and os.path.exists(MODEL_PATH)`
ThreadTest(t) ==
  /\ threads[t].pc = "test"
  /\ ThreadStep(t, [threads[t] EXCEPT
                      !.pc = IF model = NoModel /\ model_file # NoModel
                             THEN "load" ELSE "check"])
  /\ UNCHANGED globals

\* line 226, right-hand side: joblib.load(MODEL_PATH) returns what the file
\* holds now, or raises (lines 228-229)
ThreadLoad(t) ==
  /\ threads[t].pc = "load"
  /\ \/ /\ model_file # NoModel
        /\ ThreadStep(t, [threads[t] EXCEPT !.pc = "store", !.loaded = model_file])
     \/ ThreadStep(t, [threads[t] EXCEPT !.pc = "check"])
  /\ UNCHANGED globals

\* line 226, the assignment: model = <what was loaded>
ThreadStore(t) ==
  /\ threads[t].pc = "store"
  /\ model' = threads[t].loaded
  /\ ThreadStep(t, [threads[t] EXCEPT !.pc = "check"])
  /\ UNCHANGED <<model_file, REGION_RULES>>

\* predict_v1, lines 647-648: `if model is None: return ..., 500`
ThreadCheck(t) ==
  /\ threads[t].pc = "check"
  /\ ThreadStep(t, IF model = NoModel
                   THEN [threads[t] EXCEPT !.pc = "done", !.status = 500]
                   ELSE [threads[t] EXCEPT !.pc = "read"])
  /\ UNCHANGED globals

\* lines 651-656: rf is read from the global
ThreadRead(t) ==
  /\ threads[t].pc = "read"
  /\ ThreadStep(t, [threads[t] EXCEPT !.pc = "predict", !.rf = model])
  /\ UNCHANGED globals

\* lines 659-749: the prediction with rf, and the response
ThreadPredict(t) ==
  /\ threads[t].pc = "predict"
  /\ ThreadStep(t, [threads[t] EXCEPT !.pc = "done", !.status = 200])
  /\ UNCHANGED globals

\* the response leaves
ThreadRespond(t) ==
  /\ threads[t].pc = "done"
  /\ ThreadStep(t, IdleThread)
  /\ UNCHANGED globals

\* model/train_model.py, line 206: joblib.dump writes the file, new or not
Retrain ==
  /\ model_file' \in Artifacts \ {model_file}
  /\ UNCHANGED <<model, REGION_RULES, threads, request_vars, previous, probe>>

NextConcurrent ==
  \/ \E t \in Threads :
       \/ ThreadBegin(t)
       \/ ThreadTest(t)
       \/ ThreadLoad(t)
       \/ ThreadStore(t)
       \/ ThreadCheck(t)
       \/ ThreadRead(t)
       \/ ThreadPredict(t)
       \/ ThreadRespond(t)
  \/ Retrain

SpecConcurrent == Init /\ [][NextConcurrent]_vars

(***************************************************************************)
(* A client that submits one manual-feature request again and again to a   *)
(* server whose classifier is loaded.  The classifier is a function of the *)
(* row: its answer on the client's row is fixed with the artifact.         *)
(***************************************************************************)
InitRepeat ==
  /\ REGION_RULES \in RuleTables
  /\ model \in Artifacts
  /\ model_file = model
  /\ pc = "idle"
  /\ req \in ManualRequests
  /\ lat = req.latitude /\ lon = req.longitude
  /\ rain = NotFetched /\ elev = NotFetched
  /\ calls = <<>>
  /\ row = ManualRow(req) /\ meta = ManualMeta
  /\ answer \in ClassifierAnswers(model)
  /\ importances = EmptyMap
  /\ resp = NoResponse
  /\ threads = [t \in Threads |-> IdleThread]
  /\ previous = NoResponse
  /\ probe = NoProbe

\* predict_v1 on the client's request, lines 599-749
SubmitManual ==
  /\ pc = "idle"
  /\ \E order \in Orders(Len(Frame(ManualRow(req)))) :
       LET out == predict_v1(model, answer, ManualRow(req), req.latitude,
                             req.longitude, ManualMeta, REGION_RULES, order)
       IN  /\ importances' = out.importances
           /\ resp' = out.resp
  /\ calls' = <<"classifier", "attribution", "postprocess">>
  /\ pc' = "done"
  /\ UNCHANGED <<globals, req, lat, lon, rain, elev, row, meta, answer, side_vars>>

\* the client keeps the response and is ready to submit again
ReceiveResponse ==
  /\ pc = "done"
  /\ previous' = resp
  /\ pc' = "idle"
  /\ UNCHANGED <<globals, req, lat, lon, rain, elev, calls, row, meta, answer,
                 importances, resp, threads, probe>>

NextRepeat == SubmitManual \/ ReceiveResponse

SpecRepeat == InitRepeat /\ [][NextRepeat]_vars

(***************************************************************************)
(* The category helpers called directly, on every value of a range.        *)
(***************************************************************************)
\* rainfall up to 110 mm and elevation from -2 m up to 310 m, in tenths
MaxRainfall == 1100
MaxElevation == 3100
MaxDepth == 20
RainfallArguments ==
  {PyNone, PyStr("n/a")} \cup { PyNum(mm) : mm \in 0..MaxRainfall }
ElevationArguments ==
  {PyNone} \cup { PyNum(m) : m \in (0 - MaxDepth)..MaxElevation }

\* one call per run: the helpers keep no state between calls
Probe(fn, arg, result) ==
  /\ probe = NoProbe
  /\ probe' = [fn |-> fn, arg |-> arg, result |-> result]
  /\ UNCHANGED <<globals, request_vars, threads, previous>>

CallRainfallCategory ==
  \E mm \in RainfallArguments :
    Probe("_rainfall_category_from_mm", mm, _rainfall_category_from_mm(mm))

CallElevationCategory ==
  \E elev_m \in ElevationArguments :
    Probe("_elevation_category_from_m", elev_m, _elevation_category_from_m(elev_m))

\* weights up to MaxWeight on columns a fitted ColumnTransformer can name: the
\* indicator of a one-word and of a two-word soil type, an elevation indicator,
\* a scaled number, an unnamed column (feature_0) and a column of no known
\* feature
MaxWeight == 2
ProbeColumns ==
  << Cat(soil_type, "clay"), << <<"cat">>, soil_type \o <<"sandy", "loam">> >>,
     Cat(elevation_category, "low"), Num(rainfall_intensity),
     IndexedColumns[1], Num(<<"humidity">>) >>
CollapseArguments ==
  { [keys |-> ProbeColumns, num |-> w, den |-> 1] :
      w \in [Range(ProbeColumns) -> 0..MaxWeight] }

CallCollapse ==
  \E m \in CollapseArguments :
    Probe("_collapse_feature_importances", m, _collapse_feature_importances(m))

\* Base maps in twentieths: one with weights that reach the caps and the
\* floor, an even one, one of two keys, one of zeros, and the empty map.
FiveFeatures ==
  <<soil_type, elevation_category, flood_frequency, rainfall_intensity,
    distance_from_river>>
TwentiethsMap(names, scores) == [ScoreMap(names, scores) EXCEPT !.den = 20]
AdjusterMaps ==
  { TwentiethsMap(FiveFeatures, <<1, 1, 1, 10, 7>>),
    TwentiethsMap(FiveFeatures, <<4, 4, 4, 4, 4>>),
    TwentiethsMap(<<soil_type, rainfall_intensity>>, <<12, 8>>),
    TwentiethsMap(FiveFeatures, <<0, 0, 0, 0, 0>>),
    EmptyMap }
AdjusterRow(soil, flood, rain_mm, elev_cat, dist) ==
  [soil_type |-> soil, flood_frequency |-> flood, rainfall_intensity |-> rain_mm,
   elevation_category |-> elev_cat, distance_from_river |-> dist,
   rainfall_category |-> Absent]
\* rows on both sides of every threshold of the rules below
CompleteRows ==
  { AdjusterRow(PyStr(soil), PyNum(flood), PyNum(rain_mm), PyStr(elev_cat), PyNum(dist)) :
      soil \in {"clay", "sand"}, flood \in {8, 15, 20},
      rain_mm \in {100, 150, 1000, 2000}, elev_cat \in {"low", "high"},
      dist \in {5, 10, 15, 50} }
\* rows with a key missing, and rows with a value float() refuses
DeficientRows ==
  LET full == AdjusterRow(PyStr("clay"), PyNum(20), PyNum(2000), PyStr("low"), PyNum(5))
  IN  { [full EXCEPT ![f] = Absent] :
          f \in {"soil_type", "flood_frequency", "rainfall_intensity",
                 "elevation_category", "distance_from_river"} }
      \cup { [full EXCEPT ![f] = PyStr("n/a")] :
               f \in {"flood_frequency", "rainfall_intensity", "distance_from_river"} }
\* a rule whose nominal flood frequency is not a number
RuleUnparsed == [RuleHills EXCEPT !.flood_frequency = PyStr("n/a")]
AdjusterRules == {NoRule, RuleFloodplain, RuleHills, RuleSparse, RuleUnparsed}

CallRegionAdjuster ==
  \E base \in AdjusterMaps, r \in CompleteRows \cup DeficientRows,
     rule \in AdjusterRules :
    Probe("_compute_region_adjusted_importances",
          [base |-> base, row |-> r, rule |-> rule],
          _compute_region_adjusted_importances(base, r, rule))

NextProbe ==
  \/ CallRainfallCategory
  \/ CallElevationCategory
  \/ CallCollapse
  \/ CallRegionAdjuster

\* a process with no rule file and no model file
InitProbe == Init /\ REGION_RULES = <<>> /\ model_file = NoModel

SpecProbe == InitProbe /\ [][NextProbe]_vars

(***************************************************************************)
(* Properties.                                                             *)
(***************************************************************************)
\* the classifier has answered and the response is assembled
Answered == pc = "done" /\ answer # NoAnswer
\* the request went through the feature resolver
Resolved == req.latitude # PyNone /\ req.longitude # PyNone /\ row # NoRow
\* |sum of the weights - 1.0| <= 1e-6
SumsToOne(m) == Abs(Total(m) - m.den) * 1000000 <= m.den

\* C1: every non-empty attribution map the pipeline produces, the attribution
\* engine's collapsed output and the region adjuster's output returned as
\* feature_importances, has weights that sum to 1.0 within 1e-6.
C1_AttributionSumsToOne ==
  Answered =>
    /\ importances.keys # <<>> => SumsToOne(importances)
    /\ resp.feature_importances.keys # <<>> => SumsToOne(resp.feature_importances)

\* C2 as claimed: a coordinate request resolved to rainfall below 20 mm and to
\* elevation category 'high' is answered 200 with risk_level Low or Medium,
\* whatever the classifier returned.
C2_LowRainHighElevationNeverHigh ==
  (Answered /\ Resolved /\ row.rainfall_intensity.v < 200
     /\ row.elevation_category = PyStr("high"))
  => (resp.status = 200 /\ resp.risk_level \in {"Low", "Medium"})

\* C2 as amended: for such a request the response is 200 and its risk_level is
\* High exactly when the classifier returned High with a confidence of 0.95
\* or more; otherwise it is Low or Medium.
C2_HighOnlyWhenConfident ==
  (Answered /\ Resolved /\ row.rainfall_intensity.v < 200
     /\ row.elevation_category = PyStr("high"))
  => /\ resp.status = 200
     /\ resp.risk_level \in {"Low", "Medium", "High"}
     /\ resp.risk_level = "High"
          <=> (answer.pred = "High" /\ ClassifierConfidence(model, answer) >= 95)

C2_Witness ==
  /\ Answered /\ Resolved
  /\ row.rainfall_intensity.v < 200 /\ row.elevation_category = PyStr("high")
  /\ answer.pred = "High" /\ resp.risk_level = "Medium"

\* C3: when the feature row has rainfall_intensity >= 120, flood_frequency >= 3
\* and distance_from_river <= 1.5, the response to an answered request has
\* risk_level High whatever label the classifier predicted.
C3_HeavyRainFloodNearRiverIsHigh ==
  (Answered /\ row.rainfall_intensity.v >= 1200 /\ row.flood_frequency.v >= 30
     /\ row.distance_from_river.v <= 15)
  => (resp.status = 200 /\ resp.risk_level = "High")

C3_Witness ==
  /\ Answered
  /\ row.rainfall_intensity.v = 1200 /\ row.flood_frequency.v = 30
  /\ row.distance_from_river.v = 15
  /\ answer.pred = "Low" /\ resp.risk_level = "High"

DemotionCase ==
  /\ answer.pred = "High" /\ row.rainfall_intensity.v < 200
  /\ row.elevation_category = PyStr("high")
  /\ ClassifierConfidence(model, answer) < 95
PromotionCase ==
  /\ answer.pred # "High" /\ row.rainfall_intensity.v >= 1200
  /\ row.flood_frequency.v >= 30 /\ row.distance_from_river.v <= 15

\* C4: the postprocessor demotes exactly when the label is High, rainfall is
\* below 20, the elevation category is 'high' and the confidence is below 0.95;
\* it then returns Medium, min(confidence + 0.05, 0.95) and the demotion note.
C4_DemotionRule ==
  Answered =>
    /\ resp.note = DemotionNote <=> DemotionCase
    /\ DemotionCase =>
         /\ resp.risk_level = "Medium"
         /\ resp.confidence = Min(ClassifierConfidence(model, answer) + 5, 95)

C4_Witness ==
  /\ Answered /\ DemotionCase
  /\ answer.proba = 94 /\ resp.confidence = 95 /\ resp.risk_level = "Medium"

\* C5: the postprocessor promotes exactly when the label is not High, rainfall
\* is at least 120, flood frequency at least 3 and the river at most 1.5 km
\* away; it then returns High, min(max(confidence, 0.6) + 0.05, 0.99) and the
\* promotion note; when neither rule applies the label and the confidence are
\* the classifier's and there is no note.
C5_PromotionRule ==
  Answered =>
    /\ resp.note = PromotionNote <=> PromotionCase
    /\ PromotionCase =>
         /\ resp.risk_level = "High"
         /\ resp.confidence =
              Min(Max(ClassifierConfidence(model, answer), 60) + 5, 99)
    /\ (~PromotionCase /\ ~DemotionCase) =>
         /\ resp.risk_level = answer.pred
         /\ resp.confidence = ClassifierConfidence(model, answer)
         /\ resp.note = NoNote

C5_Witness ==
  /\ Answered /\ PromotionCase
  /\ answer.proba = 50 /\ resp.confidence = 65 /\ resp.risk_level = "High"

\* the rule the request's point matched, and whether it holds a value
MatchedRule == _lookup_region_rule(REGION_RULES, lat.v, lon.v)
RuleHas(v) == MatchedRule # NoRule /\ v # Absent

\* C6: resolving from coordinates, each of the five features is the live
\* measurement if one was obtained, else the matched rule's value if the rule
\* has one, else the default (rainfall 50 mm, elevation mid, flood_frequency
\* 1.0, soil_type silt, distance_from_river 2.0).
C6_LiveThenRuleThenDefault ==
  Resolved =>
    /\ row.rainfall_intensity =
         IF rain.value # PyNone THEN rain.value
         ELSE IF RuleHas(MatchedRule.rainfall_intensity)
         THEN MatchedRule.rainfall_intensity ELSE PyNum(500)
    /\ row.elevation_category =
         IF elev.value # PyNone THEN _elevation_category_from_m(elev.value)
         ELSE IF RuleHas(MatchedRule.elevation_category)
         THEN MatchedRule.elevation_category ELSE PyStr("mid")
    /\ row.flood_frequency =
         IF RuleHas(MatchedRule.flood_frequency)
         THEN MatchedRule.flood_frequency ELSE PyNum(10)
    /\ row.soil_type =
         IF RuleHas(MatchedRule.soil_type) THEN MatchedRule.soil_type
         ELSE PyStr("silt")
    /\ row.distance_from_river =
         IF RuleHas(MatchedRule.distance_from_river)
         THEN MatchedRule.distance_from_river ELSE PyNum(20)

\* the tier a provenance tag names
TierOf(tag) ==
  IF tag = PyStr("region-rule") THEN "rule"
  ELSE IF tag = PyStr("default") THEN "default"
  ELSE IF tag \in {PyStr("open-meteo"), PyStr("open-elevation")} THEN "live"
  ELSE "none"
\* the tier that supplied a value: live, else rule, else default
TierUsed(live, rule_value) ==
  IF live # PyNone THEN "live" ELSE IF RuleHas(rule_value) THEN "rule" ELSE "default"

\* C7: after the resolver has run, the provenance metadata holds for each of
\* the five features a tag naming the tier that supplied the feature's value.
C7_EveryFeatureTagged ==
  Resolved =>
    /\ TierOf(meta.sources.rainfall)
         = TierUsed(rain.value, MatchedRule.rainfall_intensity)
    /\ TierOf(meta.sources.elevation)
         = TierUsed(elev.value, MatchedRule.elevation_category)
    /\ TierOf(meta.sources.flood_frequency)
         = TierUsed(PyNone, MatchedRule.flood_frequency)
    /\ TierOf(meta.sources.soil_type) = TierUsed(PyNone, MatchedRule.soil_type)
    /\ TierOf(meta.sources.distance_from_river)
         = TierUsed(PyNone, MatchedRule.distance_from_river)

\* the point lies in the rule's box, every bound inclusive; a bound the rule
\* does not give does not limit the box, a bound that is no number gives no box
InBox(r, la, lo) ==
  /\ r.min_lat = Absent \/ (FloatOk(r.min_lat) /\ r.min_lat.v <= la)
  /\ r.max_lat = Absent \/ (FloatOk(r.max_lat) /\ la <= r.max_lat.v)
  /\ r.min_lon = Absent \/ (FloatOk(r.min_lon) /\ r.min_lon.v <= lo)
  /\ r.max_lon = Absent \/ (FloatOk(r.max_lon) /\ lo <= r.max_lon.v)
Hits == { i \in 1..Len(REGION_RULES) : InBox(REGION_RULES[i], lat.v, lon.v) }

\* C8: the rule the resolver uses is the earliest rule of the table whose box
\* contains the point, bounds inclusive, and none when no box contains it.
C8_FirstMatchInclusive ==
  Resolved =>
    IF Hits = {} THEN meta.region = Absent
    ELSE meta.region =
           PyStr(REGION_RULES[CHOOSE i \in Hits : \A j \in Hits : i <= j].name)

\* a point on the edge of two overlapping boxes
C8_Witness ==
  /\ Resolved /\ Cardinality(Hits) >= 2
  /\ lat = PyNum(2) /\ lon = PyNum(1)
  /\ meta.region = PyStr("Test Floodplain")
  /\ REGION_RULES[1] = RuleFloodplain

BothCoordinates == req.latitude # PyNone /\ req.longitude # PyNone
RequiredPresent ==
  /\ req.soil_type # Absent /\ req.flood_frequency # Absent
  /\ req.rainfall_intensity # Absent /\ req.elevation_category # Absent
Fetches == {"rainfall", "open-elevation", "open-meteo"}

\* C9: a request holding both latitude and longitude gets its row from the
\* feature resolver, whatever manual fields it also holds; a request without
\* both gets the manual fields as its row (distance_from_river 0.0 when absent).
C9_CoordinatesTakePrecedence ==
  /\ (BothCoordinates /\ row # NoRow) =>
       /\ row = _generate_features_from_location(MatchedRule, rain, elev).features
       /\ calls # <<>> /\ calls[1] = "rainfall"
       /\ ~meta.sources.manual_input
  /\ (BothCoordinates /\ FloatOk(req.latitude) /\ FloatOk(req.longitude)
        /\ pc \in {"ensure", "infer", "done"}) => row # NoRow
  /\ (~BothCoordinates /\ row # NoRow) =>
       /\ row.soil_type = req.soil_type
       /\ row.flood_frequency = req.flood_frequency
       /\ row.rainfall_intensity = req.rainfall_intensity
       /\ row.elevation_category = req.elevation_category
       /\ row.distance_from_river =
            IF req.distance_from_river = Absent THEN PyNum(0)
            ELSE req.distance_from_river
       /\ Range(calls) \cap Fetches = {}
       /\ meta.sources.manual_input
  /\ (~BothCoordinates /\ req.endpoint = "predict" /\ RequiredPresent
        /\ FloatOk(req.flood_frequency) /\ pc = "done") => row # NoRow

\* manual fields beside the coordinates, and a row that is not made of them
C9_Witness ==
  /\ pc = "done" /\ resp.status = 200
  /\ BothCoordinates /\ req.flood_frequency = PyNum(80)
  /\ row.flood_frequency # req.flood_frequency
  /\ row.soil_type # req.soil_type

BadRequest ==
  \/ BothCoordinates /\ ~(FloatOk(req.latitude) /\ FloatOk(req.longitude))
  \/ ~BothCoordinates /\ ~RequiredPresent

\* C10: a request with non-numeric coordinates, or with no coordinates and a
\* required manual field missing, is answered 400 before any fetch, classifier
\* call, attribution or postprocessing, whether or not the classifier is loaded.
C10_RejectedBeforeAnyWork ==
  (pc # "idle" /\ BadRequest) =>
    /\ pc = "done" /\ resp.status = 400
    /\ calls = <<>> /\ rain = NotFetched /\ elev = NotFetched
    /\ row = NoRow /\ answer = NoAnswer /\ importances = EmptyMap

\* rejected while the classifier is not loaded and could have been
C10_Witness ==
  /\ pc = "done" /\ BadRequest /\ resp.status = 400
  /\ req.elevation_category = Absent /\ req.soil_type # Absent
  /\ model = NoModel /\ model_file # NoModel

PipelineStages == {"classifier", "attribution", "postprocess"}
\* a request that has its feature row while the classifier is not loaded
NotLoadedAtInference == row # NoRow /\ model = NoModel /\ pc \in {"infer", "done"}

\* C11: a valid request that reaches inference while the classifier is not
\* loaded ends with the server error 'Model not loaded', with no prediction,
\* attribution or note; the handler then only returns, it does not try again.
C11_NotLoadedIsFatal ==
  /\ [](NotLoadedAtInference =>
         /\ pc = "done"
         /\ resp.status >= 500
         /\ resp.error = "Model not loaded. Train and save a model with model/train_model.py"
         /\ resp.risk_level = "" /\ resp.feature_importances = EmptyMap
         /\ resp.note = NoNote
         /\ answer = NoAnswer /\ importances = EmptyMap
         /\ \A i \in 1..Len(calls) : calls[i] \notin PipelineStages)
  /\ [][NotLoadedAtInference => pc' = "idle" /\ resp' = NoResponse /\ model' = model]_vars
\* the file exists, the lazy load failed, and the request was refused
C11_Witness ==
  /\ NotLoadedAtInference /\ model_file # NoModel
  /\ resp.status = 500 /\ req.latitude = PyNone

\* the handler is past the feature resolver, for a request with coordinates
PastResolver ==
  /\ pc \in {"ensure", "infer", "done"}
  /\ BothCoordinates /\ FloatOk(req.latitude) /\ FloatOk(req.longitude)
\* the lookup ended without a value
LookupFailed(fetched) == fetched.value = PyNone

\* C12: when the rainfall or the elevation lookup failed, the resolver still
\* returned a complete feature vector, rainfall and elevation coming from the
\* matched rule or else the default, and the request ends as it would have
\* otherwise: answered 200, or refused only because no classifier is loaded.
C12_FetchFailureNeverSurfaces ==
  (PastResolver /\ (LookupFailed(rain) \/ LookupFailed(elev))) =>
    /\ row.soil_type # PyNone /\ row.elevation_category # PyNone
    /\ FloatOk(row.rainfall_intensity) /\ FloatOk(row.flood_frequency)
    /\ FloatOk(row.distance_from_river)
    /\ LookupFailed(rain) =>
         row.rainfall_intensity =
           IF RuleHas(MatchedRule.rainfall_intensity)
           THEN MatchedRule.rainfall_intensity ELSE PyNum(500)
    /\ LookupFailed(elev) =>
         row.elevation_category =
           IF RuleHas(MatchedRule.elevation_category)
           THEN MatchedRule.elevation_category ELSE PyStr("mid")
    /\ pc = "done" =>
         \/ resp.status = 200
         \/ model = NoModel /\ resp = ModelNotLoaded
\* every lookup failed, both elevation services were tried, the rule supplied
\* the values and the request was answered
C12_Witness ==
  /\ PastResolver /\ LookupFailed(rain) /\ LookupFailed(elev)
  /\ calls = <<"rainfall", "open-elevation", "open-meteo", "classifier",
               "attribution", "postprocess">>
  /\ MatchedRule = RuleHills /\ row.rainfall_intensity = PyNum(100)
  /\ resp.status = 200

\* thread t executes the assignment `model = ...` of _ensure_model_loaded
Assigns(t) == threads[t].pc = "store" /\ threads'[t].pc # "store"

\* C13: under every interleaving of concurrent requests no handler changes
\* the rule table, every assignment to the classifier reference is made while
\* it is unloaded and loads it, and a request that has read the classifier
\* computes its response with the classifier the process holds.
C13_LoadOnceReadMany ==
  /\ [][/\ REGION_RULES' = REGION_RULES
        /\ \A t \in Threads : Assigns(t) => model = NoModel /\ model' # NoModel
        /\ model' # model => model = NoModel]_vars
  /\ [](\A t \in Threads : threads[t].pc = "predict" => threads[t].rf = model)

\* C14: the identical manual-feature request submitted again to the same
\* loaded classifier gets the response it got before: the same risk_level,
\* confidence, probabilities, feature_importances, explanation and
\* recommendation.
C14_SameRequestSameResponse ==
  (pc = "done" /\ previous # NoResponse) => resp = previous
\* a second answer, from a classifier whose permutation tier was run
C14_Witness ==
  /\ pc = "done" /\ previous # NoResponse /\ resp.status = 200
  /\ model = ArtifactTrained /\ ~answer.shap_ok
  /\ resp.feature_importances # EmptyMap
  /\ Len(resp.explanation.parts) = 3

\* the bucket of a rainfall held in tenths of a millimetre
BucketOf(tenths) ==
  IF tenths < 200 THEN "Light" ELSE IF tenths <= 1000 THEN "Moderate" ELSE "Heavy"

\* C15: when the rainfall lookup of a coordinate request succeeded, the
\* inferred_features of the response hold rainfall_category, and it is the
\* bucket of the inferred rainfall_intensity.
C15_RainfallCategoryInResponse ==
  (Answered /\ Resolved /\ rain.value # PyNone) =>
    /\ resp.location
    /\ resp.inferred_features.rainfall_intensity = rain.value
    /\ resp.inferred_features.rainfall_category =
         PyStr(BucketOf(resp.inferred_features.rainfall_intensity.v))
\* a live rainfall of exactly 20 mm, reported as Moderate
C15_Witness ==
  /\ Answered /\ Resolved /\ rain.value = PyNum(200)
  /\ resp.status = 200
  /\ resp.inferred_features.rainfall_category = PyStr("Moderate")

\* C16: the confidence of every successful response lies in [0, 1], after a
\* demotion or a promotion too, for every confidence of the classifier and for
\* the 1.0 used when it gives no probabilities.
C16_ConfidenceInUnitInterval ==
  resp.status = 200 => 0 <= resp.confidence /\ resp.confidence <= 100
\* a promotion of an answer given without probabilities (confidence 1.0)
C16_Witness ==
  /\ Answered /\ resp.status = 200
  /\ ~model.proba /\ ClassifierConfidence(model, answer) = 100
  /\ resp.note = PromotionNote /\ resp.confidence = 99

RainfallProbed == probe.fn = "_rainfall_category_from_mm" /\ FloatOk(probe.arg)
ElevationProbed == probe.fn = "_elevation_category_from_m" /\ FloatOk(probe.arg)

\* C17: _rainfall_category_from_mm gives Light below 20 mm, Moderate from 20
\* to 100 mm inclusive and Heavy above 100 mm: 19.9 is Light, 20.0 and 100.0
\* are Moderate, 100.1 is Heavy.
C17_RainfallBuckets ==
  RainfallProbed =>
    /\ probe.arg.v < 200 => probe.result = PyStr("Light")
    /\ (200 <= probe.arg.v /\ probe.arg.v <= 1000) => probe.result = PyStr("Moderate")
    /\ probe.arg.v > 1000 => probe.result = PyStr("Heavy")
    /\ probe.arg.v = 199 => probe.result = PyStr("Light")
    /\ probe.arg.v \in {200, 1000} => probe.result = PyStr("Moderate")
    /\ probe.arg.v = 1001 => probe.result = PyStr("Heavy")
\* the call on 100.0 mm, the upper edge of Moderate
C17_Witness ==
  RainfallProbed /\ probe.arg = PyNum(1000) /\ probe.result = PyStr("Moderate")

\* C18: _elevation_category_from_m gives low below 50 m, mid from 50 m up to
\* but excluding 300 m and high from 300 m on: 49.9 is low, 50.0 and 299.9 are
\* mid, 300.0 is high.
C18_ElevationBuckets ==
  ElevationProbed =>
    /\ probe.arg.v < 500 => probe.result = PyStr("low")
    /\ (500 <= probe.arg.v /\ probe.arg.v < 3000) => probe.result = PyStr("mid")
    /\ probe.arg.v >= 3000 => probe.result = PyStr("high")
    /\ probe.arg.v = 499 => probe.result = PyStr("low")
    /\ probe.arg.v \in {500, 2999} => probe.result = PyStr("mid")
    /\ probe.arg.v = 3000 => probe.result = PyStr("high")
\* the call on 300.0 m, the lower edge of high
C18_Witness ==
  ElevationProbed /\ probe.arg = PyNum(3000) /\ probe.result = PyStr("high")

\* the request's classifier is a pipeline, so predict_v1 ran the cascade
CascadeRan == Answered /\ model.steps = "pipeline"
ExactResult == TreeExplainerTier(model, answer)
BuiltinResult == BuiltinTier(model)
\* the one order of the rows of a one-row frame
PermutationResult ==
  PermutationTier(model, answer, row, CHOOSE o \in Orders(Len(Frame(row))) : TRUE)
EveryTierFailed ==
  /\ CascadeRan
  /\ ExactResult = TierFailed
  /\ PermutationResult = TierFailed
  /\ BuiltinResult = TierFailed

C20_FirstSuccessfulTierWins ==
  CascadeRan =>
    LET exact == ExactResult
        perm == PermutationResult
        builtin == BuiltinResult
    IN  /\ exact # TierFailed => importances = exact
        /\ (exact = TierFailed /\ perm # TierFailed) => importances = perm
        /\ (exact = TierFailed /\ perm = TierFailed /\ builtin # TierFailed)
             => importances = builtin
        /\ (importances = builtin /\ builtin # exact)
             => exact = TierFailed /\ perm = TierFailed
\* the built-in importances returned after the explainer raised and the
\* permutation of the one row changed nothing, and the explainer answering
\* while different built-in importances were there
C20_Witness ==
  /\ CascadeRan /\ model = ArtifactTrained
  /\ BuiltinResult # TierFailed
  /\ TreeExplainerTier(model, [answer EXCEPT !.shap_ok = TRUE]) # BuiltinResult
  /\ ExactResult = TierFailed /\ PermutationResult = TierFailed
  /\ importances = BuiltinResult

\* how many times the request made call k
TimesCalled(k) == Cardinality({ i \in DOMAIN calls : calls[i] = k })

\* C21: within one request every external lookup is made at most once and
\* none is retried: rainfall first and once, then the first elevation source,
\* the second elevation source only after the first gave no value, and after
\* the second the resolver runs with what it has, taking elevation from the
\* rule or the default when both sources failed.
C21_EachLookupAtMostOnce ==
  /\ [](/\ \A k \in Fetches : TimesCalled(k) <= 1
        /\ pc = "elevation" => calls = <<"rainfall">>
        /\ pc = "elevation2" =>
             LookupFailed(elev) /\ calls = <<"rainfall", "open-elevation">>
        /\ (PastResolver /\ TimesCalled("open-meteo") = 0) =>
             ~LookupFailed(elev) /\ meta.sources.elevation = PyStr("open-elevation")
        /\ (PastResolver /\ TimesCalled("open-meteo") = 1 /\ LookupFailed(elev)) =>
             meta.sources.elevation \in {PyStr("region-rule"), PyStr("default")})
  /\ [][/\ pc = "rainfall" => pc' = "elevation"
        /\ pc = "elevation" => pc' \in {"elevation2", "resolve"}
        /\ pc = "elevation2" => pc' = "resolve"
        /\ pc = "resolve" => calls' = calls]_vars
\* all three lookups failed once each and the row came from the defaults
C21_Witness ==
  /\ PastResolver /\ LookupFailed(rain) /\ LookupFailed(elev)
  /\ \A k \in Fetches : TimesCalled(k) = 1
  /\ MatchedRule = NoRule
  /\ meta.sources.rainfall = PyStr("default")
  /\ meta.sources.elevation = PyStr("default")

CollapseProbed == probe.fn = "_collapse_feature_importances"
\* the feature a transformed column was made from: the one whose name its
\* second part begins with; <<>> when there is none
Origin(column) ==
  LET from == { f \in CanonicalFeatures :
                  /\ Len(column) = 2 /\ Len(column[2]) >= Len(f)
                  /\ SubSeq(column[2], 1, Len(f)) = f }
  IN  IF from = {} THEN <<>> ELSE CHOOSE f \in from : TRUE
\* the column's name as it was given, prefix included
WholeName(column) ==
  IF Len(column) = 1 THEN column[1] ELSE column[1] \o <<"__">> \o column[2]
CanonicalKey(column) ==
  IF Origin(column) # <<>> THEN Origin(column) ELSE WholeName(column)

\* C22: the collapsed map has one key per original feature with a column in
\* the input, and one key per unrecognized column, its name unchanged; each
\* weight is the sum of the weights of the key's columns over the total of all
\* column weights.
C22_CollapseSumsByOriginalFeature ==
  CollapseProbed =>
    LET in == probe.arg
        out == probe.result
        columns(k) == { c \in Range(in.keys) : CanonicalKey(c) = k }
    IN  /\ Range(out.keys) = { CanonicalKey(c) : c \in Range(in.keys) }
        /\ \A k \in Range(out.keys) :
             out.num[k] * Total(in) = SumOver(in.num, columns(k)) * out.den

AdjusterProbed == probe.fn = "_compute_region_adjusted_importances"
\* the map, the row and the rule hold every key and every number is a number
NothingMissing ==
  /\ Range(probe.arg.base.keys) = Range(FiveFeatures)
  /\ probe.arg.row \in CompleteRows
  /\ \A v \in { probe.arg.rule.rainfall_intensity, probe.arg.rule.flood_frequency,
                 probe.arg.rule.distance_from_river } : v = Absent \/ FloatOk(v)
\* the weight of key k after the claim's scalings, in units of 1/(1000 * den)
ClaimedWeight(k) ==
  LET base == probe.arg.base
      r == probe.arg.row
      rule == probe.arg.rule
      w == 1000 * base.num[k]
      scaled(mul) == 100 * mul * base.num[k]
      limit(cap) == 10 * cap * base.den
      rain_nominal == Max(Get(rule.rainfall_intensity, PyNum(500)).v, 10)
      flood_nominal == Max(Get(rule.flood_frequency, PyNum(10)).v, 10)
      dist_nominal == Max(Get(rule.distance_from_river, PyNum(20)).v, 1)
      rain_mm == r.rainfall_intensity.v
      flood == r.flood_frequency.v
      dist == r.distance_from_river.v
  IN  CASE k = rainfall_intensity ->
             IF 10 * rain_mm < 5 * rain_nominal \/ 10 * rain_mm > 15 * rain_nominal
             THEN Min(scaled(14), limit(40)) ELSE w
        [] k = flood_frequency ->
             IF 10 * flood > 15 * flood_nominal THEN Min(scaled(13), limit(35))
             ELSE IF 10 * flood > 8 * flood_nominal THEN Max(scaled(8), limit(5))
             ELSE w
        [] k = distance_from_river ->
             IF dist < 10 THEN Min(scaled(15), limit(40))
             ELSE IF 10 * dist < 3 * dist_nominal THEN Min(scaled(12), limit(35))
             ELSE w
        [] k = elevation_category ->
             IF r.elevation_category # Get(rule.elevation_category, PyStr("mid"))
             THEN Min(scaled(13), limit(35)) ELSE w
        [] k = soil_type ->
             IF r.soil_type # Get(rule.soil_type, PyStr("silt"))
             THEN Min(scaled(12), limit(40)) ELSE w
ClaimedTotal ==
  SumOver([k \in Range(FiveFeatures) |-> ClaimedWeight(k)], Range(FiveFeatures))

\* C23: with no rule the adjuster returns its input map; with a rule, a map
\* of the five features that sums to 1 and nothing missing, each weight of the
\* result is the claimed scaled weight over the total of the scaled weights,
\* and the result sums to 1.
C23_RegionAdjusterScalings ==
  AdjusterProbed =>
    /\ probe.arg.rule = NoRule => probe.result = probe.arg.base
    /\ (/\ probe.arg.rule # NoRule /\ NothingMissing
        /\ Total(probe.arg.base) = probe.arg.base.den) =>
         /\ probe.result.keys = probe.arg.base.keys
         /\ Total(probe.result) = probe.result.den
         /\ \A k \in Range(FiveFeatures) :
              probe.result.num[k] * ClaimedTotal = ClaimedWeight(k) * probe.result.den
\* every scaling applied at once, the rainfall and distance weights at their
\* caps and the flood weight above its floor
C23_Witness ==
  /\ AdjusterProbed /\ NothingMissing
  /\ probe.arg.rule = RuleHills
  /\ probe.arg.base = TwentiethsMap(FiveFeatures, <<1, 1, 1, 10, 7>>)
  /\ probe.arg.row =
       AdjusterRow(PyStr("clay"), PyNum(15), PyNum(2000), PyStr("low"), PyNum(5))
  /\ ClaimedWeight(rainfall_intensity) = 8000
  /\ ClaimedWeight(distance_from_river) = 8000
  /\ ClaimedWeight(flood_frequency) = 1000
  /\ probe.result # probe.arg.base
  /\ Total(probe.result) = probe.result.den

RowFields ==
  {"soil_type", "flood_frequency", "rainfall_intensity", "elevation_category",
   "distance_from_river"}
MissingFromMap == Range(FiveFeatures) \ Range(probe.arg.base.keys) # {}
MissingFromRow == \E f \in RowFields : probe.arg.row[f] = Absent
\* a value of the row or the rule that float() refuses
NonNumeric ==
  \E v \in { probe.arg.row.rainfall_intensity, probe.arg.row.flood_frequency,
              probe.arg.row.distance_from_river, probe.arg.rule.rainfall_intensity,
              probe.arg.rule.flood_frequency, probe.arg.rule.distance_from_river } :
    v.t = "str"
\* the same keys in the same order with the same weights
SameMap(a, b) ==
  /\ a.keys = b.keys
  /\ \A k \in Range(a.keys) : a.num[k] * b.den = b.num[k] * a.den
\* the row with the defaults of row.get in place of its missing keys
Filled(r) ==
  [r EXCEPT !.rainfall_intensity = Get(@, PyNum(0)),
            !.flood_frequency = Get(@, PyNum(10)),
            !.distance_from_river = Get(@, PyNum(20)),
            !.elevation_category = Get(@, PyStr("mid")),
            !.soil_type = Get(@, PyStr("silt"))]
\* the scaling of key k applies to the probed row and rule
Fires(k) ==
  LET r == Filled(probe.arg.row)
      rule == probe.arg.rule
      rain_nominal == Max(Get(rule.rainfall_intensity, PyNum(500)).v, 10)
      flood_nominal == Max(Get(rule.flood_frequency, PyNum(10)).v, 10)
      dist_nominal == Max(Get(rule.distance_from_river, PyNum(20)).v, 1)
  IN  CASE k = rainfall_intensity ->
             \/ 10 * r.rainfall_intensity.v < 5 * rain_nominal
             \/ 10 * r.rainfall_intensity.v > 15 * rain_nominal
        [] k = flood_frequency -> 10 * r.flood_frequency.v > 8 * flood_nominal
        [] k = distance_from_river ->
             \/ r.distance_from_river.v < 10
             \/ 10 * r.distance_from_river.v < 3 * dist_nominal
        [] k = elevation_category ->
             r.elevation_category # Get(rule.elevation_category, PyStr("mid"))
        [] k = soil_type -> r.soil_type # Get(rule.soil_type, PyStr("silt"))

\* C24 as stated: with a rule, whenever a feature key is missing from the base
\* map or from the row, or a value is not numeric, the adjuster returns the
\* input map with no key added and no weight changed.
C24_AnyFailureReturnsInput ==
  (AdjusterProbed /\ probe.arg.rule # NoRule
     /\ (MissingFromMap \/ MissingFromRow \/ NonNumeric)) =>
    SameMap(probe.result, probe.arg.base)

\* C24: with a rule, a value that is not numeric makes the adjuster return the
\* input map as it was; a missing key is no failure: a key missing from the
\* row counts with its default, and a key missing from the base map is added
\* to the result whenever its scaling applies.
C24_OnlyNonNumericReturnsInput ==
  (AdjusterProbed /\ probe.arg.rule # NoRule) =>
    /\ NonNumeric => probe.result = probe.arg.base
    /\ ~NonNumeric =>
         /\ probe.result =
              _compute_region_adjusted_importances(
                probe.arg.base, Filled(probe.arg.row), probe.arg.rule)
         /\ Range(probe.result.keys) =
              Range(probe.arg.base.keys) \cup { k \in Range(FiveFeatures) : Fires(k) }
\* a rule whose nominal flood frequency is no number, met with a complete row
\* and a map the scalings would have changed
C24_Witness ==
  /\ AdjusterProbed /\ NonNumeric /\ probe.arg.rule = RuleUnparsed
  /\ probe.arg.row \in CompleteRows /\ Fires(rainfall_intensity)
  /\ probe.arg.base = TwentiethsMap(FiveFeatures, <<4, 4, 4, 4, 4>>)
  /\ probe.result = probe.arg.base

\* how many entries of map m come before its i-th entry: the heavier ones,
\* and the equally heavy ones inserted earlier
Rank(m, i) ==
  Cardinality({ j \in 1..Len(m.keys) :
                  \/ m.num[m.keys[j]] > m.num[m.keys[i]]
                  \/ m.num[m.keys[j]] = m.num[m.keys[i]] /\ j < i })
\* the entry of map m that comes n-th
Ranked(m, n) == m.keys[CHOOSE i \in 1..Len(m.keys) : Rank(m, i) = n - 1]

\* C25: the explanation of an answered request holds one sentence for each of
\* the 3 heaviest entries of the returned attribution map (for each entry when
\* there are fewer), heaviest first, equal weights in insertion order.
C25_OneSentencePerTopEntry ==
  (Answered /\ resp.status = 200) =>
    LET m == resp.feature_importances
        parts == resp.explanation.parts
    IN  /\ Len(parts) = Min(3, Len(m.keys))
        /\ \A n \in 1..Len(parts) : <<parts[n]>> = SentenceFor(Ranked(m, n), row)

\* the postprocessor changed the classifier's label
RuleFired == resp.risk_level # answer.pred
NoteText == IF resp.note = NoNote THEN <<>> ELSE <<Space, Sentence(resp.note, PyNone)>>

\* C26 as stated: the explanation of a successful response is the feature
\* sentences, then the note exactly when a postprocessing rule fired, then the
\* disclaimer sentence; influencing_factors is that string split on '. '.
C26_ExplanationEndsWithDisclaimer ==
  (Answered /\ resp.status = 200) =>
    /\ resp.note # NoNote <=> RuleFired
    /\ Text(resp.explanation) =
         Joined(resp.explanation.parts, 1) \o NoteText
         \o <<Space, Sentence(Disclaimer, PyNone)>>
    /\ resp.influencing_factors = Split(Text(resp.explanation))

\* C26: the explanation of a successful response is the feature sentences,
\* then the name of the matched region when there is one, then the note
\* exactly when a postprocessing rule fired; the disclaimer is a field of its
\* own and no part of the explanation; influencing_factors is the explanation
\* split on '. ', so a sentence followed by another piece loses its full stop
\* and the region and the note stay in one piece.
C26_ExplanationThenRegionThenNote ==
  (Answered /\ resp.status = 200) =>
    LET text == Text(resp.explanation)
        parts == resp.explanation.parts
        tail == (IF meta.region # Absent
                 THEN <<Sentence("Region:", meta.region)>> ELSE <<>>)
                \o (IF meta.region # Absent /\ RuleFired THEN <<Space>> ELSE <<>>)
                \o (IF RuleFired THEN <<Sentence(resp.note, PyNone)>> ELSE <<>>)
        factors == resp.influencing_factors
    IN  /\ resp.note # NoNote <=> RuleFired
        /\ resp.explanation.note = resp.note
        /\ text = Joined(parts, 1) \o (IF tail = <<>> THEN <<>> ELSE <<Space>> \o tail)
        /\ resp.disclaimer = Disclaimer
        /\ \A i \in 1..Len(text) : text[i].template # Disclaimer
        /\ factors = Split(text)
        /\ parts = <<>> => factors = <<(IF tail = <<>> THEN <<>> ELSE <<Space>> \o tail)>>
        /\ (parts # <<>> /\ tail = <<>>) =>
             /\ Len(factors) = Len(parts)
             /\ \A i \in 1..(Len(parts) - 1) : factors[i] = <<parts[i]>>
             /\ factors[Len(parts)] = <<parts[Len(parts)], FullStop>>
        /\ (parts # <<>> /\ tail # <<>>) =>
             /\ Len(factors) = Len(parts) + 1
             /\ \A i \in 1..Len(parts) : factors[i] = <<parts[i]>>
             /\ factors[Len(parts) + 1] = tail
\* three sentences, a matched region and the promotion note
C26_Witness ==
  /\ Answered /\ resp.status = 200
  /\ Len(resp.explanation.parts) = 3
  /\ meta.region = PyStr("Test Floodplain")
  /\ resp.note = PromotionNote /\ RuleFired
  /\ Len(resp.influencing_factors) = 4
  /\ resp.disclaimer = Disclaimer

\* the postprocessor applied to the label and confidence of the response
Reapplied == _postprocess(resp.risk_level, resp.confidence, row)

\* C27: the postprocessor is idempotent: applied again to the label and the
\* confidence it returned, with the same feature row, it returns them
\* unchanged and with no note, so at most one rule fires per request.
C27_PostprocessIdempotent ==
  (Answered /\ resp.status = 200) =>
    /\ Reapplied = [label |-> resp.risk_level, confidence |-> resp.confidence,
                    note |-> NoNote]
    /\ resp.note \in {NoNote, DemotionNote, PromotionNote}
    /\ resp.note = DemotionNote => ~(row.rainfall_intensity.v >= 1200)
    /\ resp.note = PromotionNote => ~(row.rainfall_intensity.v < 200)
\* a demoted response and a promoted one, each left alone by a second pass
C27_WitnessDemoted ==
  /\ Answered /\ resp.status = 200
  /\ resp.note = DemotionNote /\ resp.risk_level = "Medium"
  /\ Reapplied.note = NoNote /\ Reapplied.label = "Medium"
C27_Witness ==
  /\ Answered /\ resp.status = 200
  /\ resp.note = PromotionNote /\ resp.risk_level = "High"
  /\ row.elevation_category = PyStr("high")
  /\ Reapplied.note = NoNote /\ Reapplied.label = "High"

RecommendationTexts == {"High risk", "Moderate risk", "Low risk"}
\* the text the recommendation table assigns to a label
TextFor(label) ==
  CASE label \in {"High", "high"} -> "High risk"
    [] label \in {"Medium", "medium"} -> "Moderate risk"
    [] OTHER -> "Low risk"

\* C28: the recommendation of a successful response is the text of the final
\* risk_level (High, Medium, otherwise Low), and when a postprocessing rule
\* changed the label it is not the text of the classifier's label.
C28_RecommendationFollowsFinalLabel ==
  (Answered /\ resp.status = 200) =>
    /\ resp.recommendation = TextFor(resp.risk_level)
    /\ resp.recommendation \in RecommendationTexts
    /\ RuleFired => resp.recommendation # TextFor(answer.pred)
    /\ ~RuleFired => resp.risk_level = answer.pred
\* a Low label promoted to High gets the High text
C28_Witness ==
  /\ Answered /\ resp.status = 200
  /\ answer.pred = "Low" /\ resp.risk_level = "High"
  /\ resp.recommendation = "High risk"
\* a High label demoted to Medium gets the Medium text
C28_WitnessDemoted ==
  /\ Answered /\ resp.status = 200
  /\ answer.pred = "High" /\ resp.risk_level = "Medium"
  /\ resp.recommendation = "Moderate risk"

\* the rule predict_v1 hands to the adjuster (line 715)
PassedRule == IF Resolved THEN MatchedRule ELSE NoRule

\* C29: in a request handled end to end the adjuster's soil-type scaling, its
\* flood-frequency x1.3 boost and its distance-ratio x1.2 scaling never apply:
\* without coordinates the adjuster gets no rule and returns the base map, and
\* with coordinates soil_type, flood_frequency and distance_from_river of the
\* row are the values of the rule the adjuster compares them with.
C29_RuleFedScalingsNeverApply ==
  (Answered /\ resp.status = 200) =>
    LET d(what) == Deviates(what, row, PassedRule)
    IN  /\ ~Resolved => resp.feature_importances = importances
        /\ PassedRule = NoRule => resp.feature_importances = importances
        /\ PassedRule # NoRule =>
             /\ ~d("soil") /\ ~d("flood_high") /\ ~d("dist_ratio")
             /\ row.soil_type = Get(PassedRule.soil_type, PyStr("silt"))
             /\ row.flood_frequency = Get(PassedRule.flood_frequency, PyNum(10))
             /\ row.distance_from_river = Get(PassedRule.distance_from_river, PyNum(10))
             /\ resp.feature_importances =
                  _compute_region_adjusted_importances(importances, row, PassedRule)
\* the adjuster ran with the rule "Hills" (river 5 km away) and scaled the
\* rainfall and the elevation weights, which come from live measurements
C29_Witness ==
  /\ Answered /\ resp.status = 200
  /\ PassedRule = RuleHills
  /\ Deviates("rainfall", row, PassedRule)
  /\ Deviates("elevation", row, PassedRule)
  /\ Deviates("flood_near", row, PassedRule)
  /\ importances # EmptyMap
  /\ resp.feature_importances # importances

\* the scores of the permutation tier for an order of the rows of the frame
PermutationScores(order) ==
  _compute_feature_importance_permutation(model, answer, row, order)

\* C30: on the one-row frame of a request the permutation tier never supplies
\* the attribution: whatever order the generator draws, the permuted row is
\* the row, every column scores 0, the total is not above the threshold and
\* the tier is passed over; when the exact tier failed the attribution is the
\* built-in tier's (the empty map when there is none), so it does not depend
\* on the draw.
C30_PermutationTierNeverAnswers ==
  CascadeRan =>
    /\ \A o \in Orders(Len(Frame(row))) :
         LET scores == PermutationScores(o)
         IN  /\ \A i \in 1..Len(model.columns) :
                  PermuteColumn(Frame(row), i, o)[1] = row
             /\ \A k \in DOMAIN scores.num : scores.num[k] = 0
             /\ PermutationTier(model, answer, row, o) = TierFailed
    /\ ExactResult = TierFailed =>
         importances = IF BuiltinResult # TierFailed THEN BuiltinResult ELSE EmptyMap
    /\ importances \in {ExactResult, BuiltinResult, EmptyMap}
\* the permutation tier was run after the explainer raised, scored every column
\* 0, and the built-in importances became the attribution
C30_Witness ==
  /\ CascadeRan /\ model.proba /\ ~answer.shap_ok
  /\ PermutationScores(<<1>>) # EmptyMap
  /\ Total(PermutationScores(<<1>>)) = 0
  /\ BuiltinResult # TierFailed /\ importances = BuiltinResult
  /\ resp.status = 200

====
